---- MODULE Spec2Model ----
(***************************************************************************)
(* pySwitchbot: the advertisement resolver (switchbot/adv_parser.py), the  *)
(* per-model advertisement parsers (switchbot/adv_parsers/*.py) and the    *)
(* device objects that consume the resolver's records.                     *)
(*                                                                         *)
(* Encoding of Python values                                               *)
(*   bytes          a sequence of integers 0..255; Python index i is       *)
(*                  element i+1.  None (no payload) is NoneBytes.          *)
(*   str of chr(n)  <<"str", n>>;  a bytes dictionary key  <<"bytes", ..>> *)
(*   bool           1 / 0 (Python: True == 1, False == 0)                  *)
(*   None           NoneInt in a numeric field, "None" in a string field   *)
(*   Enum member    the member's value (LockStatus(3) is 3); a value that  *)
(*                  has no member raises ValueError                        *)
(*   float          kept as the exact integer numerator (tenths)           *)
(*   dict           a function from key strings to values; {} is EmptyMap  *)
(***************************************************************************)
EXTENDS Integers, Sequences, FiniteSets, TLC

\* ------------------------------------------------------------------------
\* Python value helpers
\* ------------------------------------------------------------------------
NoneInt == -100000

NoneBytes == <<-1>>

NoneModel == <<"None">>

EmptyMap == <<>>

IsNone(b) == b = NoneBytes

\* not d, for a dict d
IsEmpty(m) == DOMAIN m = {}

\* truthiness of "bytes | None": None and b"" are falsy
Truthy(b) == ~IsNone(b) /\ Len(b) > 0

\* b[i] for 0 <= i < len(b)
At(b, i) == b[i + 1]

\* b[lo:hi]
Slice(b, lo, hi) ==
    SubSeq(b, lo + 1, IF hi < Len(b) THEN hi ELSE Len(b))

\* b[-4:]
Last4(b) == SubSeq(b, IF Len(b) > 4 THEN Len(b) - 3 ELSE 1, Len(b))

RECURSIVE BitAnd(_, _)
BitAnd(x, y) ==
    IF x = 0 \/ y = 0 THEN 0
    ELSE (x % 2) * (y % 2) + 2 * BitAnd(x \div 2, y \div 2)

RECURSIVE Pow2(_)
Pow2(n) == IF n = 0 THEN 1 ELSE 2 * Pow2(n - 1)

Shr(x, n) == x \div Pow2(n)

\* bool(x)
Bool(x) == IF x # 0 THEN 1 ELSE 0

Chr(n) == <<"str", n>>

BytesKey(b) == <<"bytes">> \o b

Ok(m) == [exc |-> "", val |-> m]

Raise(e) == [exc |-> e, val |-> EmptyMap]

\* ------------------------------------------------------------------------
\* switchbot/adv_parser.py: the dispatch table
\* ------------------------------------------------------------------------
SERVICE_DATA_ORDER == <<"0000fd3d", "00000d00">>

MFR_DATA_ORDER == <<2409, 741, 89>>

E(c, name, friendly, f, mid) ==
    [chr |-> c, modelName |-> name, modelFriendlyName |-> friendly,
     func |-> f, manufacturer_id |-> mid, manufacturer_data_length |-> NoneInt]

EL(c, name, friendly, f, mid, len) ==
    [chr |-> c, modelName |-> name, modelFriendlyName |-> friendly,
     func |-> f, manufacturer_id |-> mid, manufacturer_data_length |-> len]

\* the entries in the order of the dict literal
SUPPORTED_TYPES ==
    << E(Chr(100), "WoContact", "Contact Sensor", "process_wocontact", 2409),      \* "d"
       E(Chr(72), "WoHand", "Bot", "process_wohand", 89),                          \* "H"
       E(Chr(115), "WoPresence", "Motion Sensor", "process_wopresence", 2409),     \* "s"
       E(Chr(114), "WoStrip", "Light Strip", "process_wostrip", 2409),             \* "r"
       E(Chr(123), "WoCurtain", "Curtain 3", "process_wocurtain", 2409),           \* "{"
       E(Chr(99), "WoCurtain", "Curtain", "process_wocurtain", 2409),              \* "c"
       E(Chr(119), "WoIOSensorTH", "Indoor/Outdoor Meter", "process_wosensorth", 2409), \* "w"
       E(Chr(105), "WoSensorTH", "Meter Plus", "process_wosensorth", 2409),        \* "i"
       E(Chr(84), "WoSensorTH", "Meter", "process_wosensorth", 2409),              \* "T"
       E(Chr(52), "WoTHP", "Meter Pro", "process_wosensorth", 2409),               \* "4"
       E(Chr(53), "WoTHPc", "Meter Pro CO2", "process_wosensorth_c", 2409),        \* "5"
       E(Chr(118), "WoHub2", "Hub 2", "process_wohub2", 2409),                     \* "v"
       E(Chr(103), "WoPlug", "Plug Mini", "process_woplugmini", 2409),             \* "g"
       E(Chr(106), "WoPlug", "Plug Mini (JP)", "process_woplugmini", 2409),        \* "j"
       E(Chr(117), "WoBulb", "Color Bulb", "process_color_bulb", 2409),            \* "u"
       E(Chr(113), "WoCeiling", "Ceiling Light", "process_woceiling", 2409),       \* "q"
       E(Chr(110), "WoCeiling", "Ceiling Light Pro", "process_woceiling", 2409),   \* "n"
       EL(Chr(101), "WoHumi", "Humidifier", "process_wohumidifier", 741, 6),       \* "e"
       E(Chr(35), "Evaporative Humidifier", "Evaporative Humidifier",
         "process_evaporative_humidifier", 2409),                                  \* "#"
       E(Chr(111), "WoLock", "Lock", "process_wolock", 2409),                      \* "o"
       E(Chr(36), "WoLockPro", "Lock Pro", "process_wolock_pro", 2409),            \* "$"
       E(Chr(120), "WoBlindTilt", "Blind Tilt", "process_woblindtilt", 2409),      \* "x"
       E(Chr(38), "Leak Detector", "Leak Detector", "process_leak", 2409),         \* "&"
       E(Chr(121), "WoKeypad", "Keypad", "process_wokeypad", 2409),                \* "y"
       E(Chr(60), "Relay Switch 1PM", "Relay Switch 1PM",
         "process_relay_switch_common_data", 2409),                                \* "<"
       E(Chr(59), "Relay Switch 1", "Relay Switch 1",
         "process_relay_switch_common_data", 2409),                                \* ";"
       E(Chr(98), "WoRemote", "Remote", "process_woremote", 89),                   \* "b"
       E(Chr(44), "Roller Shade", "Roller Shade", "process_worollershade", 2409),  \* ","
       E(Chr(37), "HubMini Matter", "HubMini Matter", "process_hubmini_matter", 2409), \* "%"
       E(Chr(126), "Circulator Fan", "Circulator Fan", "process_fan", 2409),       \* "~"
       E(Chr(46), "K20 Vacuum", "K20 Vacuum", "process_vacuum", 2409),             \* "."
       E(Chr(122), "S10 Vacuum", "S10 Vacuum", "process_vacuum", 2409),            \* "z"
       E(Chr(51), "K10+ Pro Combo Vacuum", "K10+ Pro Combo Vacuum",
         "process_vacuum", 2409),                                                  \* "3"
       E(Chr(125), "K10+ Vacuum", "K10+ Vacuum", "process_vacuum_k", 2409),        \* "}"
       E(Chr(40), "K10+ Pro Vacuum", "K10+ Pro Vacuum", "process_vacuum_k", 2409), \* "("
       E(Chr(42), "Air Purifier", "Air Purifier", "process_air_purifier", 2409),   \* "*"
       E(Chr(43), "Air Purifier", "Air Purifier", "process_air_purifier", 2409),   \* "+"
       E(Chr(55), "Air Purifier Table", "Air Purifier Table",
         "process_air_purifier", 2409),                                            \* "7"
       E(Chr(56), "Air Purifier Table", "Air Purifier Table",
         "process_air_purifier", 2409),                                            \* "8"
       E(BytesKey(<<0, 16, 185, 64>>), "Hub3", "Hub3", "process_hub3", 2409),
       E(Chr(45), "Lock Lite", "Lock Lite", "process_locklite", 2409),             \* "-"
       E(BytesKey(<<0, 16, 165, 184>>), "Lock Ultra", "Lock Ultra", "process_lock2", 2409),
       E(Chr(62), "Garage Door Opener", "Garage Door Opener",
         "process_garage_door_opener", 2409),                                      \* ">"
       E(Chr(61), "Relay Switch 2PM", "Relay Switch 2PM",
         "process_relay_switch_2pm", 2409),                                        \* "="
       E(BytesKey(<<0, 16, 208, 176>>), "Floor Lamp", "Floor Lamp", "process_light", 2409),
       E(BytesKey(<<0, 16, 208, 177>>), "Strip Light 3", "Strip Light 3",
         "process_light", 2409) >>

TableIdx == 1..Len(SUPPORTED_TYPES)

\* key in SUPPORTED_TYPES
InSupported(k) == \E i \in TableIdx : SUPPORTED_TYPES[i].chr = k

\* SUPPORTED_TYPES.get(key): the index of the entry, 0 for None
SupportedGet(k) ==
    IF InSupported(k)
    THEN CHOOSE i \in TableIdx : SUPPORTED_TYPES[i].chr = k
    ELSE 0

\* a reverse index that keeps the first entry of a model
ModelToCharFirst(m) ==
    LET first == CHOOSE i \in TableIdx :
                    /\ SUPPORTED_TYPES[i].modelName = m
                    /\ \A j \in TableIdx : SUPPORTED_TYPES[j].modelName = m => i <= j
    IN  SUPPORTED_TYPES[first].chr

\* _SWITCHBOT_MODEL_TO_CHAR[m]: a dict comprehension over the table, so the
\* last entry of a model overwrites the earlier ones
SWITCHBOT_MODEL_TO_CHAR(m) ==
    LET last == CHOOSE i \in TableIdx :
                    /\ SUPPORTED_TYPES[i].modelName = m
                    /\ \A j \in TableIdx : SUPPORTED_TYPES[j].modelName = m => j <= i
    IN  SUPPORTED_TYPES[last].chr

\* m in _SWITCHBOT_MODEL_TO_CHAR
InModelToChar(m) == \E i \in TableIdx : SUPPORTED_TYPES[i].modelName = m

\* MODELS_BY_MANUFACTURER_DATA[mfr_id]: table indices, in table order
MODELS_BY_MANUFACTURER_DATA(mid) ==
    SelectSeq([i \in TableIdx |-> i],
              LAMBDA i : SUPPORTED_TYPES[i].manufacturer_id = mid)

InModelsByMfr(mid) == \E k \in 1..Len(MFR_DATA_ORDER) : MFR_DATA_ORDER[k] = mid

\* ------------------------------------------------------------------------
\* switchbot/adv_parsers/keypad.py
\* Each parser returns [exc, val]: exc is "" and val the mapping, or exc names
\* the exception raised.  process_wokeypad also takes and returns the function
\* attribute process_wokeypad.lastStatus.
\* ------------------------------------------------------------------------
KeypadSuccess(lastStatus, status) ==
    /\ lastStatus # -1
    /\ \/ (status > lastStatus /\ status - lastStatus >= 2)
       \/ (status < lastStatus /\ status - lastStatus >= -254)

process_wokeypad(data, mfr_data, ls) ==
    IF IsNone(data) \/ IsNone(mfr_data)
    THEN [exc |-> "", ls |-> -1,
          val |-> [battery |-> NoneInt, attemptState |-> NoneInt]]
    ELSE IF Len(mfr_data) < 7
    THEN [exc |-> "IndexError", val |-> EmptyMap, ls |-> ls]
    ELSE IF Len(data) < 3
    THEN [exc |-> "IndexError", val |-> EmptyMap, ls |-> At(mfr_data, 6)]
    ELSE [exc |-> "", ls |-> At(mfr_data, 6),
          val |-> [battery |-> At(data, 2),
                   success |-> IF KeypadSuccess(ls, At(mfr_data, 6)) THEN 1 ELSE 0]]

\* ------------------------------------------------------------------------
\* switchbot/const/lock.py, switchbot/adv_parsers/lock.py
\* ------------------------------------------------------------------------
LockStatusValues == 0..6

process_locklite(data, mfr_data) ==
    IF IsNone(mfr_data) THEN Ok(EmptyMap)
    ELSE IF Len(mfr_data) < 7 THEN Raise("IndexError")
    ELSE IF Truthy(data) /\ Len(data) < 3 THEN Raise("IndexError")
    ELSE IF Len(mfr_data) < 8 THEN Raise("IndexError")
    ELSE IF Shr(BitAnd(At(mfr_data, 7), 112), 4) \notin LockStatusValues
    THEN Raise("ValueError")
    ELSE IF Len(mfr_data) < 9 THEN Raise("IndexError")
    ELSE Ok([sequence_number |-> At(mfr_data, 6),
             battery |-> IF Truthy(data) THEN BitAnd(At(data, 2), 127) ELSE NoneInt,
             calibration |-> Bool(BitAnd(At(mfr_data, 7), 128)),
             status |-> Shr(BitAnd(At(mfr_data, 7), 112), 4),
             update_from_secondary_lock |-> Bool(BitAnd(At(mfr_data, 7), 8)),
             double_lock_mode |-> Bool(BitAnd(At(mfr_data, 8), 128)),
             unlocked_alarm |-> Bool(BitAnd(At(mfr_data, 8), 16)),
             night_latch |-> IF Len(mfr_data) > 9
                             THEN Bool(BitAnd(At(mfr_data, 9), 1)) ELSE 0])

process_wolock(data, mfr_data) ==
    LET common_data == process_locklite(data, mfr_data)
    IN  IF common_data.exc # "" THEN common_data
        ELSE IF IsEmpty(common_data.val) THEN Ok(EmptyMap)
        ELSE Ok([door_open |-> Bool(BitAnd(At(mfr_data, 7), 4)),
                 unclosed_alarm |-> Bool(BitAnd(At(mfr_data, 8), 32)),
                 auto_lock_paused |-> Bool(BitAnd(At(mfr_data, 8), 2))]
                @@ common_data.val)

parse_common_data(mfr_data) ==
    IF IsNone(mfr_data) THEN Ok(EmptyMap)
    ELSE IF Len(mfr_data) < 8 THEN Raise("IndexError")
    ELSE IF Shr(BitAnd(At(mfr_data, 7), 120), 3) \notin LockStatusValues
    THEN Raise("ValueError")
    ELSE IF Len(mfr_data) < 12 THEN Raise("IndexError")
    ELSE Ok([sequence_number |-> At(mfr_data, 6),
             calibration |-> Bool(BitAnd(At(mfr_data, 7), 128)),
             status |-> Shr(BitAnd(At(mfr_data, 7), 120), 3),
             update_from_secondary_lock |-> Bool(BitAnd(At(mfr_data, 8), 192)),
             door_open_from_secondary_lock |-> Bool(BitAnd(At(mfr_data, 8), 32)),
             door_open |-> Bool(BitAnd(At(mfr_data, 8), 16)),
             auto_lock_paused |-> Bool(BitAnd(At(mfr_data, 8), 8)),
             battery |-> BitAnd(At(mfr_data, 9), 127),
             double_lock_mode |-> Bool(BitAnd(At(mfr_data, 10), 128)),
             is_secondary_lock |-> Bool(BitAnd(At(mfr_data, 10), 64)),
             manual_unlock_linkage |-> Bool(BitAnd(At(mfr_data, 10), 32)),
             unclosed_alarm |-> Bool(BitAnd(At(mfr_data, 11), 128)),
             unlocked_alarm |-> Bool(BitAnd(At(mfr_data, 11), 64)),
             night_latch |-> 0])

process_wolock_pro(data, mfr_data) ==
    LET common_data == parse_common_data(mfr_data)
    IN  IF common_data.exc # "" THEN common_data
        ELSE IF IsEmpty(common_data.val) THEN Ok(EmptyMap)
        ELSE Ok([low_temperature_alarm |-> Bool(BitAnd(At(mfr_data, 11), 32)),
                 left_battery_compartment_alarm |-> BitAnd(At(mfr_data, 11), 4),
                 right_battery_compartment_alarm |-> BitAnd(At(mfr_data, 11), 2)]
                @@ common_data.val)

process_lock2(data, mfr_data) ==
    LET common_data == parse_common_data(mfr_data)
    IN  IF common_data.exc # "" THEN common_data
        ELSE IF IsEmpty(common_data.val) THEN Ok(EmptyMap)
        ELSE Ok([power_alarm |-> Bool(BitAnd(At(mfr_data, 11), 16)),
                 battery_status |-> BitAnd(At(mfr_data, 11), 7)]
                @@ common_data.val)

\* ------------------------------------------------------------------------
\* switchbot/const/evaporative_humidifier.py, switchbot/adv_parsers/humidifier.py
\* ------------------------------------------------------------------------
HumidifierModeValues == 1..8

HumidifierWaterLevelName(v) ==
    CASE v = 0 -> "empty" [] v = 1 -> "low" [] v = 2 -> "medium" [] v = 3 -> "high"

\* int.from_bytes(b, byteorder="big")
RECURSIVE FromBytesBE(_)
FromBytesBE(b) ==
    IF Len(b) = 0 THEN 0
    ELSE 256 * FromBytesBE(SubSeq(b, 1, Len(b) - 1)) + b[Len(b)]

\* (celsius * 9 / 5) + 32, celsius in tenths, the result in hundredths
celsius_to_fahrenheit(c10) == c10 * 18 + 3200

\* returns <<temp_c (tenths), temp_f (hundredths), humidity>>
calculate_temperature_and_humidity(data, is_meter_binded) ==
    IF Len(data) < 3 \/ is_meter_binded = 0
    THEN <<NoneInt, NoneInt, NoneInt>>
    ELSE IF BitAnd(At(data, 0), 127) > 100
    THEN <<NoneInt, NoneInt, NoneInt>>
    ELSE LET sign == IF BitAnd(At(data, 1), 128) # 0 THEN 1 ELSE -1
             c10  == sign * (BitAnd(At(data, 1), 127) * 10 + Shr(At(data, 2), 4))
         IN  <<c10, celsius_to_fahrenheit(c10), BitAnd(At(data, 0), 127)>>

process_wohumidifier(data, mfr_data) ==
    IF IsNone(data)
    THEN Ok([isOn |-> NoneInt, level |-> NoneInt, switchMode |-> 1])
    ELSE IF Len(data) < 5 THEN Raise("IndexError")
    ELSE Ok([isOn |-> Bool(At(data, 1)), level |-> At(data, 4), switchMode |-> 1])

process_evaporative_humidifier(data, mfr_data) ==
    IF IsNone(mfr_data) THEN Ok(EmptyMap)
    ELSE IF Len(mfr_data) < 8 THEN Raise("IndexError")
    ELSE IF BitAnd(At(mfr_data, 7), 15) \notin HumidifierModeValues
    THEN Raise("ValueError")
    ELSE IF Len(mfr_data) < 17 THEN Raise("IndexError")
    ELSE LET is_meter_binded == Bool(BitAnd(At(mfr_data, 9), 128))
             t == calculate_temperature_and_humidity(
                      Slice(mfr_data, 9, 12), is_meter_binded)
             filter_run_time == BitAnd(FromBytesBE(Slice(mfr_data, 12, 14)), 4095)
         IN  Ok([seq_number |-> At(mfr_data, 6),
                 isOn |-> Bool(BitAnd(At(mfr_data, 7), 128)),
                 mode |-> BitAnd(At(mfr_data, 7), 15),
                 over_humidify_protection |-> Bool(BitAnd(At(mfr_data, 8), 128)),
                 child_lock |-> Bool(BitAnd(At(mfr_data, 8), 32)),
                 tank_removed |-> Bool(BitAnd(At(mfr_data, 8), 4)),
                 tilted_alert |-> Bool(BitAnd(At(mfr_data, 8), 2)),
                 filter_missing |-> Bool(BitAnd(At(mfr_data, 8), 1)),
                 is_meter_binded |-> is_meter_binded,
                 humidity |-> t[3],
                 temperature |-> t[1],
                 temp |-> [c |-> t[1], f |-> t[2]],
                 water_level |-> HumidifierWaterLevelName(BitAnd(At(mfr_data, 11), 3)),
                 filter_run_time |-> filter_run_time,
                 filter_alert |-> IF filter_run_time \div 24 >= 10 THEN 1 ELSE 0,
                 target_humidity |-> BitAnd(At(mfr_data, 16), 127)])

\* ------------------------------------------------------------------------
\* switchbot/const/fan.py, switchbot/adv_parsers/fan.py
\* ------------------------------------------------------------------------
FanModeName(v) ==
    CASE v = 1 -> "NORMAL" [] v = 2 -> "NATURAL" [] v = 3 -> "SLEEP" [] v = 4 -> "BABY"

process_fan(data, mfr_data) ==
    IF IsNone(mfr_data) THEN Ok(EmptyMap)
    ELSE IF Len(mfr_data) < 10 THEN Raise("IndexError")
    ELSE LET device_data == Slice(mfr_data, 6, Len(mfr_data))
             mode == Shr(BitAnd(At(device_data, 1), 112), 4)
         IN  Ok([sequence_number |-> At(device_data, 0),
                 isOn |-> Bool(BitAnd(At(device_data, 1), 128)),
                 mode |-> IF 1 <= mode /\ mode <= 4 THEN FanModeName(mode) ELSE "None",
                 nightLight |-> Shr(BitAnd(At(device_data, 1), 12), 2),
                 oscillating |-> Bool(BitAnd(At(device_data, 1), 3)),
                 battery |-> BitAnd(At(device_data, 2), 127),
                 speed |-> BitAnd(At(device_data, 3), 127)])

\* ------------------------------------------------------------------------
\* switchbot/adv_parsers/light_strip.py
\* ------------------------------------------------------------------------
process_wostrip(data, mfr_data) ==
    IF IsNone(mfr_data) THEN Ok(EmptyMap)
    ELSE IF Len(mfr_data) < 9 THEN Raise("IndexError")
    ELSE Ok([sequence_number |-> At(mfr_data, 6),
             isOn |-> Bool(BitAnd(At(mfr_data, 7), 128)),
             brightness |-> BitAnd(At(mfr_data, 7), 127),
             delay |-> Bool(BitAnd(At(mfr_data, 8), 128)),
             network_state |-> Shr(BitAnd(At(mfr_data, 8), 112), 4),
             color_mode |-> BitAnd(At(mfr_data, 8), 15)])

process_light(data, mfr_data) ==
    LET common_data == process_wostrip(data, mfr_data)
    IN  IF common_data.exc # "" THEN common_data
        ELSE IF IsEmpty(common_data.val) THEN Ok(EmptyMap)
        ELSE IF Len(mfr_data) < 18 THEN Raise("struct.error")
        ELSE Ok([cw |-> FromBytesBE(Slice(mfr_data, 16, 18))] @@ common_data.val)

\* ------------------------------------------------------------------------
\* switchbot/helpers.py, switchbot/adv_parsers/plug.py
\* ------------------------------------------------------------------------
process_woplugmini(data, mfr_data) ==
    IF IsNone(mfr_data) THEN Ok(EmptyMap)
    ELSE IF Len(mfr_data) < 10 THEN Raise("IndexError")
    ELSE IF 10 + 2 > Len(mfr_data) THEN Raise("ValueError")
    ELSE Ok([switchMode |-> 1,
             isOn |-> IF At(mfr_data, 7) = 128 THEN 1 ELSE 0,
             wifi_rssi |-> 0 - At(mfr_data, 9),
             power |-> BitAnd(FromBytesBE(Slice(mfr_data, 10, 12)), 32767)])

\* ------------------------------------------------------------------------
\* switchbot/const/hub3.py, switchbot/adv_parsers/hub3.py
\* ------------------------------------------------------------------------
LIGHT_INTENSITY_MAP ==
    <<0, 50, 90, 205, 317, 510, 610, 707, 801, 1023>>

Min(a, b) == IF a < b THEN a ELSE b

Max(a, b) == IF a > b THEN a ELSE b

hub3_calculate_light_intensity(light_level) ==
    LET k == Max(0, Min(light_level, 10))
    IN  IF k \in DOMAIN LIGHT_INTENSITY_MAP THEN LIGHT_INTENSITY_MAP[k] ELSE 0

\* round(x, 1) of a value given in hundredths, the result in tenths
Round1(h) == IF h >= 0 THEN (h + 5) \div 10 ELSE 0 - ((5 - h) \div 10)

process_hub3(data, mfr_data) ==
    IF IsNone(mfr_data) THEN Ok(EmptyMap)
    ELSE IF Len(mfr_data) < 17 THEN Raise("IndexError")
    ELSE LET device_data == Slice(mfr_data, 6, Len(mfr_data))
             light_level == BitAnd(At(device_data, 6), 15)
             temp_data == Slice(device_data, 7, 10)
             sign == IF BitAnd(At(temp_data, 1), 128) # 0 THEN 1 ELSE -1
             c10 == sign * (BitAnd(At(temp_data, 1), 127) * 10
                            + BitAnd(At(temp_data, 0), 15))
         IN  Ok([sequence_number |-> At(device_data, 0),
                 network_state |-> Shr(BitAnd(At(device_data, 6), 192), 6),
                 sensor_inserted |-> 1 - Bool(BitAnd(At(device_data, 6), 32)),
                 lightLevel |-> light_level,
                 illuminance |-> hub3_calculate_light_intensity(light_level),
                 temperature_alarm |-> Bool(BitAnd(At(device_data, 7), 192)),
                 humidity_alarm |-> Bool(BitAnd(At(device_data, 7), 48)),
                 temp |-> [c |-> c10, f |-> Round1(celsius_to_fahrenheit(c10))],
                 temperature |-> c10,
                 humidity |-> BitAnd(At(temp_data, 2), 127),
                 motion_detected |-> Bool(BitAnd(At(device_data, 10), 128))])

\* ------------------------------------------------------------------------
\* switchbot/adv_parsers/hub2.py, switchbot/adv_parsers/hubmini_matter.py
\* Temperatures are in tenths (c) and hundredths (f) of a degree.
\* ------------------------------------------------------------------------
\* light_map of calculate_light_intensity
hub2_light_map ==
    [k \in 1..21 |->
        <<0, 10, 20, 30, 40, 50, 60, 70, 80, 90, 105, 205, 317, 416, 510, 610, 707,
          801, 897, 1023, 1091>>[k]]

\* the hub 2 table read as the hub 3 reads its own: the level is clamped
hub2_calculate_light_intensity_clamped(light_level) ==
    hub2_light_map[Max(1, Min(light_level, 21))]

hub2_calculate_light_intensity(light_level) ==
    IF light_level < 1 \/ light_level > 21 THEN 0 ELSE hub2_light_map[light_level]

\* a hub 2 parser without the check for a reading of zero
process_wohub2_no_sentinel(data, mfr_data) ==
    IF ~Truthy(mfr_data) THEN Ok(EmptyMap)
    ELSE IF Len(mfr_data) < 13 THEN Raise("IndexError")
    ELSE LET Decode(status, temp_data) ==
                 IF Len(temp_data) = 0 THEN Ok(EmptyMap)
                 ELSE IF Len(temp_data) < 3 THEN Raise("IndexError")
                 ELSE LET Reading(c10, humidity, light_level) ==
                              Ok([temp |-> [c |-> c10, f |-> celsius_to_fahrenheit(c10)],
                                  temperature |-> c10,
                                  fahrenheit |-> Bool(BitAnd(At(temp_data, 2), 128)),
                                  humidity |-> humidity,
                                  lightLevel |-> light_level,
                                  illuminance |->
                                      hub2_calculate_light_intensity(light_level)])
                      IN  Reading((IF BitAnd(At(temp_data, 1), 128) # 0 THEN 1 ELSE -1)
                                    * (BitAnd(At(temp_data, 1), 127) * 10
                                       + BitAnd(At(temp_data, 0), 15)),
                                  BitAnd(At(temp_data, 2), 127),
                                  BitAnd(status, 31))
         IN  Decode(At(mfr_data, 12), Slice(mfr_data, 13, 16))

process_wohub2(data, mfr_data) ==
    IF ~Truthy(mfr_data) THEN Ok(EmptyMap)
    ELSE IF Len(mfr_data) < 13 THEN Raise("IndexError")
    ELSE LET Decode(status, temp_data) ==
                 IF Len(temp_data) = 0 THEN Ok(EmptyMap)
                 ELSE IF Len(temp_data) < 3 THEN Raise("IndexError")
                 ELSE LET Reading(c10, humidity, light_level) ==
                              IF c10 = 0 /\ humidity = 0 THEN Ok(EmptyMap)
                              ELSE
                              Ok([temp |-> [c |-> c10, f |-> celsius_to_fahrenheit(c10)],
                                  temperature |-> c10,
                                  fahrenheit |-> Bool(BitAnd(At(temp_data, 2), 128)),
                                  humidity |-> humidity,
                                  lightLevel |-> light_level,
                                  illuminance |->
                                      hub2_calculate_light_intensity(light_level)])
                      IN  Reading((IF BitAnd(At(temp_data, 1), 128) # 0 THEN 1 ELSE -1)
                                    * (BitAnd(At(temp_data, 1), 127) * 10
                                       + BitAnd(At(temp_data, 0), 15)),
                                  BitAnd(At(temp_data, 2), 127),
                                  BitAnd(status, 31))
         IN  Decode(At(mfr_data, 12), Slice(mfr_data, 13, 16))

process_hubmini_matter(data, mfr_data) ==
    IF ~Truthy(mfr_data) THEN Ok(EmptyMap)
    ELSE LET Decode(temp_data) ==
                 IF Len(temp_data) = 0 THEN Ok(EmptyMap)
                 ELSE IF Len(temp_data) < 3 THEN Raise("IndexError")
                 ELSE LET Reading(c10, humidity) ==
                              IF c10 = 0 /\ humidity = 0 THEN Ok(EmptyMap)
                              ELSE
                              Ok([temp |-> [c |-> c10, f |-> celsius_to_fahrenheit(c10)],
                                  temperature |-> c10,
                                  fahrenheit |-> Bool(BitAnd(At(temp_data, 2), 128)),
                                  humidity |-> humidity])
                      IN  Reading((IF BitAnd(At(temp_data, 1), 128) # 0 THEN 1 ELSE -1)
                                    * (BitAnd(At(temp_data, 1), 127) * 10
                                       + BitAnd(At(temp_data, 0), 15)),
                                  BitAnd(At(temp_data, 2), 127))
         IN  Decode(Slice(mfr_data, 13, 16))

\* ------------------------------------------------------------------------
\* switchbot/adv_parsers/relay_switch.py, remote.py, roller_shade.py
\* ------------------------------------------------------------------------
process_relay_switch_common_data(data, mfr_data) ==
    IF IsNone(mfr_data) THEN Ok(EmptyMap)
    ELSE IF Len(mfr_data) < 8 THEN Raise("IndexError")
    ELSE Ok([switchMode |-> 1,
             sequence_number |-> At(mfr_data, 6),
             isOn |-> Bool(BitAnd(At(mfr_data, 7), 128))])

process_garage_door_opener(data, mfr_data) ==
    LET common_data == process_relay_switch_common_data(data, mfr_data)
    IN  IF IsNone(mfr_data) THEN Ok(EmptyMap)
        ELSE IF common_data.exc # "" THEN common_data
        ELSE Ok([door_open |-> 1 - Bool(BitAnd(At(mfr_data, 7), 32))]
                @@ common_data.val)

process_woremote(data, mfr_data) ==
    IF IsNone(data) THEN Ok([battery |-> NoneInt])
    ELSE IF Len(data) < 3 THEN Raise("IndexError")
    ELSE Ok([battery |-> BitAnd(At(data, 2), 127)])

process_worollershade(data, mfr_data) ==
    IF IsNone(mfr_data) THEN Ok(EmptyMap)
    ELSE IF Len(mfr_data) < 10 THEN Raise("IndexError")
    ELSE IF Truthy(data) /\ Len(data) < 3 THEN Raise("IndexError")
    ELSE LET device_data == Slice(mfr_data, 6, Len(mfr_data))
             position == Max(Min(BitAnd(At(device_data, 2), 127), 100), 0)
         IN  Ok([calibration |-> Bool(BitAnd(At(device_data, 2), 128)),
                 battery |-> IF Truthy(data) THEN BitAnd(At(data, 2), 127) ELSE NoneInt,
                 inMotion |-> Bool(BitAnd(At(device_data, 1), 6)),
                 position |-> 100 - position,
                 lightLevel |-> BitAnd(Shr(At(device_data, 3), 4), 15),
                 deviceChain |-> BitAnd(At(device_data, 3), 15),
                 sequence_number |-> At(device_data, 0)])

\* ------------------------------------------------------------------------
\* switchbot/adv_parser.py: _parse_data
\* ------------------------------------------------------------------------
NoneStr == "None"

WithStatus(r, ls) == [exc |-> r.exc, val |-> r.val, ls |-> ls]

\* type_data["func"](_service_data, _mfr_data)
ApplyParser(func, data, mfr_data, ls) ==
    CASE func = "process_wokeypad" -> process_wokeypad(data, mfr_data, ls)
      [] func = "process_locklite" -> WithStatus(process_locklite(data, mfr_data), ls)
      [] func = "process_wolock" -> WithStatus(process_wolock(data, mfr_data), ls)
      [] func = "process_wolock_pro" -> WithStatus(process_wolock_pro(data, mfr_data), ls)
      [] func = "process_lock2" -> WithStatus(process_lock2(data, mfr_data), ls)
      [] func = "process_wohumidifier" ->
            WithStatus(process_wohumidifier(data, mfr_data), ls)
      [] func = "process_evaporative_humidifier" ->
            WithStatus(process_evaporative_humidifier(data, mfr_data), ls)
      [] func = "process_fan" -> WithStatus(process_fan(data, mfr_data), ls)
      [] func = "process_wostrip" -> WithStatus(process_wostrip(data, mfr_data), ls)
      [] func = "process_light" -> WithStatus(process_light(data, mfr_data), ls)
      [] func = "process_woplugmini" -> WithStatus(process_woplugmini(data, mfr_data), ls)
      [] func = "process_hub3" -> WithStatus(process_hub3(data, mfr_data), ls)
      [] func = "process_wohub2" -> WithStatus(process_wohub2(data, mfr_data), ls)
      [] func = "process_hubmini_matter" ->
            WithStatus(process_hubmini_matter(data, mfr_data), ls)
      [] func = "process_relay_switch_common_data" ->
            WithStatus(process_relay_switch_common_data(data, mfr_data), ls)
      [] func = "process_garage_door_opener" ->
            WithStatus(process_garage_door_opener(data, mfr_data), ls)
      [] func = "process_woremote" -> WithStatus(process_woremote(data, mfr_data), ls)
      [] func = "process_worollershade" ->
            WithStatus(process_worollershade(data, mfr_data), ls)

\* a scan that accepts a payload at least as long as manufacturer_data_length
ModelByLengthAtLeast(mfr_id, mfr_data) ==
    LET cands == MODELS_BY_MANUFACTURER_DATA(mfr_id)
        hits  == {k \in 1..Len(cands) :
                    /\ SUPPORTED_TYPES[cands[k]].manufacturer_data_length # NoneInt
                    /\ SUPPORTED_TYPES[cands[k]].manufacturer_data_length
                          <= Len(mfr_data)}
    IN  IF hits = {} THEN NoneModel
        ELSE SUPPORTED_TYPES[cands[CHOOSE k \in hits : \A j \in hits : k <= j]].chr

\* the first candidate of the manufacturer id whose manufacturer_data_length
\* equals len(_mfr_data) (lines 418-422)
ModelByLength(mfr_id, mfr_data) ==
    LET cands == MODELS_BY_MANUFACTURER_DATA(mfr_id)
        hits  == {k \in 1..Len(cands) :
                    SUPPORTED_TYPES[cands[k]].manufacturer_data_length = Len(mfr_data)}
    IN  IF hits = {} THEN NoneModel
        ELSE SUPPORTED_TYPES[cands[CHOOSE k \in hits : \A j \in hits : k <= j]].chr

\* a discriminator selection in which the service-data character beats the hint
SelectModelServiceFirst(service_data, mfr_data, mfr_id, switchbot_model) ==
    LET m0 == IF Truthy(service_data)
              THEN Chr(BitAnd(At(service_data, 0), 127)) ELSE NoneModel
        m1 == IF m0 = NoneModel /\ switchbot_model # NoneStr
                 /\ InModelToChar(switchbot_model)
              THEN SWITCHBOT_MODEL_TO_CHAR(switchbot_model) ELSE m0
        m2 == IF m1 = NoneModel /\ mfr_id # NoneInt /\ mfr_id # 0
                 /\ InModelsByMfr(mfr_id)
              THEN ModelByLength(mfr_id, mfr_data) ELSE m1
    IN  IF Truthy(service_data) /\ Len(service_data) > 5
           /\ InSupported(BytesKey(Last4(service_data)))
        THEN BytesKey(Last4(service_data)) ELSE m2

\* a discriminator selection in which the trailing product code yields to
\* a discriminator found earlier
SelectModelSuffixLast(service_data, mfr_data, mfr_id, switchbot_model) ==
    LET m0 == IF Truthy(service_data)
              THEN Chr(BitAnd(At(service_data, 0), 127)) ELSE NoneModel
        m1 == IF switchbot_model # NoneStr /\ InModelToChar(switchbot_model)
              THEN SWITCHBOT_MODEL_TO_CHAR(switchbot_model) ELSE m0
        m2 == IF m1 = NoneModel /\ mfr_id # NoneInt /\ mfr_id # 0
                 /\ InModelsByMfr(mfr_id)
              THEN ModelByLength(mfr_id, mfr_data) ELSE m1
    IN  IF m2 = NoneModel /\ Truthy(service_data) /\ Len(service_data) > 5
           /\ InSupported(BytesKey(Last4(service_data)))
        THEN BytesKey(Last4(service_data)) ELSE m2

\* lines 413-428: the discriminator _model, NoneModel when none was found
SelectModel(service_data, mfr_data, mfr_id, switchbot_model) ==
    LET m0 == IF Truthy(service_data)
              THEN Chr(BitAnd(At(service_data, 0), 127)) ELSE NoneModel
        m1 == IF switchbot_model # NoneStr /\ InModelToChar(switchbot_model)
              THEN SWITCHBOT_MODEL_TO_CHAR(switchbot_model) ELSE m0
        m2 == IF m1 = NoneModel /\ mfr_id # NoneInt /\ mfr_id # 0
                 /\ InModelsByMfr(mfr_id)
              THEN ModelByLength(mfr_id, mfr_data) ELSE m1
    IN  IF Truthy(service_data) /\ Len(service_data) > 5
           /\ InSupported(BytesKey(Last4(service_data)))
        THEN BytesKey(Last4(service_data)) ELSE m2

\* a record that is enriched whenever the discriminator has a dispatch entry
BuildDataAlwaysEnrich(service_data, model, type_idx, model_data) ==
    LET data == [rawAdvData |-> service_data, data |-> EmptyMap, model |-> model,
                 isEncrypted |-> IF Truthy(service_data)
                                 THEN Bool(BitAnd(At(service_data, 0), 128)) ELSE 0]
    IN  IF type_idx # 0
        THEN [modelFriendlyName |-> SUPPORTED_TYPES[type_idx].modelFriendlyName,
              modelName |-> SUPPORTED_TYPES[type_idx].modelName,
              data |-> model_data] @@ data
        ELSE data

\* lines 433-453: the record for a discriminator, the index of its dispatch
\* entry (0: no entry) and the mapping its parser returned
BuildData(service_data, model, type_idx, model_data) ==
    LET data == [rawAdvData |-> service_data, data |-> EmptyMap, model |-> model,
                 isEncrypted |-> IF Truthy(service_data)
                                 THEN Bool(BitAnd(At(service_data, 0), 128)) ELSE 0]
    IN  IF type_idx # 0 /\ ~IsEmpty(model_data)
        THEN [modelFriendlyName |-> SUPPORTED_TYPES[type_idx].modelFriendlyName,
              modelName |-> SUPPORTED_TYPES[type_idx].modelName,
              data |-> model_data] @@ data
        ELSE data

\* the body of _parse_data (a cache miss).  kind is "raise" (exc names the
\* exception), "none" (returns None) or "data" (returns rec); ls is
\* process_wokeypad.lastStatus afterwards; model, type_idx and parsed are the
\* locals _model, type_data and model_data.
parse_data_body(service_data, mfr_data, mfr_id, switchbot_model, ls) ==
    LET Built(model, type_idx, r) ==
            IF r.exc # ""
            THEN [kind |-> "raise", exc |-> r.exc, rec |-> EmptyMap, ls |-> r.ls,
                  model |-> model, type_idx |-> type_idx, parsed |-> EmptyMap,
                  ran |-> TRUE]
            ELSE [kind |-> "data", exc |-> "", ls |-> r.ls,
                  rec |-> BuildData(service_data, model, type_idx, r.val),
                  model |-> model, type_idx |-> type_idx, parsed |-> r.val,
                  ran |-> type_idx # 0]
        Parsed(model, type_idx) ==
            Built(model, type_idx,
                  IF type_idx # 0
                  THEN ApplyParser(SUPPORTED_TYPES[type_idx].func, service_data,
                                   mfr_data, ls)
                  ELSE [exc |-> "", val |-> EmptyMap, ls |-> ls])
        Selected(model) ==
            IF model = NoneModel
            THEN [kind |-> "none", exc |-> "", rec |-> EmptyMap, ls |-> ls,
                  model |-> model, type_idx |-> 0, parsed |-> EmptyMap, ran |-> FALSE]
            ELSE Parsed(model, SupportedGet(model))
    IN  Selected(SelectModel(service_data, mfr_data, mfr_id, switchbot_model))

\* ------------------------------------------------------------------------
\* The advertisements the scanner delivers
\* ------------------------------------------------------------------------
UUID1 == "0000fd3d"

UUID2 == "00000d00"

Hdr == <<235, 19, 2, 230, 35, 15>>

KeypadSD == <<121, 0, 100>>

KeypadMfrA == Hdr \o <<143, 100, 0, 0, 0, 0>>

KeypadMfrB == Hdr \o <<145, 100, 0, 0, 0, 0>>

RelaySD == <<60, 0, 0>>

RelayMfr == Hdr \o <<7, 128, 0, 0, 0, 0>>

LockSD == <<111, 128, 100>>

LockMfrBad == Hdr \o <<1, 112, 0>>

LockMfrOk == Hdr \o <<1, 16, 0>>

EvapSD == <<35, 0, 0>>

EvapMfrBad == Hdr \o <<1, 128, 0, 200, 150, 3, 0, 250, 0, 0, 50>>

FanSD == <<126, 0, 0>>

FanMfrBad == Hdr \o <<1, 128, 90, 40>>

PlugSD == <<103, 0, 0>>

PlugMfr == Hdr \o <<0, 128, 0, 60, 0, 25>>

Hub3SD == <<0, 0, 100, 0, 16, 185, 64>>

Hub3ShortSD == <<111, 0, 16, 185, 64>>

Hub3Mfr == Hdr \o <<5, 0, 0, 0, 0, 0, 3, 4, 150, 40, 128>>

HumiMfr == <<1, 2, 3, 4, 5, 6>>

HumiMfrLong == <<1, 2, 3, 4, 5, 6, 7>>

UnknownSD == <<65, 0, 0>>

UnknownUUID == "0000abcd"

Adv(sd, md) == [service_data |-> sd, manufacturer_data |-> md]

In(adv, model) == [adv |-> adv, model |-> model]

Inputs ==
    << In(Adv(UUID1 :> KeypadSD, 2409 :> KeypadMfrA), NoneStr),
       In(Adv(UUID1 :> KeypadSD, 2409 :> KeypadMfrB), NoneStr),
       In(Adv(UUID1 :> KeypadSD, 2409 :> KeypadMfrA), "WoKeypad"),
       In(Adv(EmptyMap, 2409 :> KeypadMfrA), "WoKeypad"),
       In(Adv(UUID1 :> RelaySD, 2409 :> RelayMfr), NoneStr),
       In(Adv(UUID1 :> RelaySD, EmptyMap), NoneStr),
       In(Adv(UUID1 :> LockSD, 2409 :> LockMfrBad), NoneStr),
       In(Adv(UUID1 :> EvapSD, 2409 :> EvapMfrBad), NoneStr),
       In(Adv(UUID1 :> FanSD, 2409 :> FanMfrBad), NoneStr),
       In(Adv(UUID1 :> PlugSD, 2409 :> PlugMfr), NoneStr),
       In(Adv(UUID1 :> PlugSD, 2409 :> PlugMfr), "WoPlug"),
       In(Adv(UUID1 :> Hub3SD, 2409 :> Hub3Mfr), NoneStr),
       In(Adv(UUID1 :> Hub3SD, 2409 :> Hub3Mfr), "WoRemote"),
       In(Adv(UUID1 :> Hub3SD, EmptyMap), NoneStr),
       In(Adv(UUID1 :> Hub3ShortSD, 2409 :> LockMfrOk), NoneStr),
       In(Adv(EmptyMap, 741 :> HumiMfr), NoneStr),
       In(Adv(EmptyMap, 2409 :> RelayMfr), NoneStr),
       In(Adv(UUID2 :> UnknownSD, (2409 :> RelayMfr) @@ (89 :> HumiMfr)), "Bogus"),
       In(Adv(UUID1 :> <<>>, 2403 :> RelayMfr), NoneStr),
       In(Adv(EmptyMap, EmptyMap), "WoHand"),
       In(Adv(UnknownUUID :> KeypadSD, 1234 :> KeypadMfrA), NoneStr),
       In(Adv(EmptyMap, 741 :> HumiMfrLong), NoneStr) >>

InputIdx == 1..Len(Inputs)

\* ------------------------------------------------------------------------
\* State
\* ------------------------------------------------------------------------
MaxCalls == 3

VARIABLES
    cache,        \* lru_cache of _parse_data: <<[key, val]>>, least recent first;
                  \* val is the index in objs of the cached dict, 0 for None
    objs,         \* the dicts _parse_data has returned, by identity
    made,         \* per dict of objs, the locals type_data and model_data of
                  \* the _parse_data run that built it
    lastStatus,   \* process_wokeypad.lastStatus
    logged,       \* number of _LOGGER.exception calls of the resolver
    relay_adv,    \* SwitchbotRelaySwitch._sb_adv_data: index in objs, 0 for None
    relay_exc,    \* the exception the last update_from_advertisement raised
    ret,          \* what the last parse_advertisement_data call did
    call,         \* the arguments and locals of that call
    calls,        \* number of resolver calls so far
    firstOut,     \* per input, the outcome of the first call with that input
    race,         \* a second scanning callback inside _parse_data: its input, the
                  \* cache miss it started from and what it returned
    lk_entry,     \* table lookups: index of the dispatch entry looked up
    lk_char,      \* _SWITCHBOT_MODEL_TO_CHAR[SUPPORTED_TYPES[..]["modelName"]]
    lk_fwd,       \* index of the entry SUPPORTED_TYPES.get(lk_char) returns
    lk_pc         \* "idle", "start", "reversed" or "done"

rvars == <<cache, objs, made, lastStatus, logged, relay_adv, relay_exc, ret, call,
           calls, firstOut, race>>

lkvars == <<lk_entry, lk_char, lk_fwd, lk_pc>>

\* ------------------------------------------------------------------------
\* State of the parsers and devices exercised on their own
\* ------------------------------------------------------------------------
VARIABLES
    mt_sd,        \* hub 2 / hub mini: the service-data of the advertisement
    mt_mfr,       \* its manufacturer-data
    mt_out,       \* what the parser of the model returned
    mt_rec,       \* what _parse_data made of it
    mt_pc         \* "idle", "start" or "done"

mtvars == <<mt_sd, mt_mfr, mt_out, mt_rec, mt_pc>>

VARIABLES
    d_client,     \* SwitchbotDevice._client: "none", "connected", or "lost" (a
                  \* client whose is_connected is False)
    d_timer,      \* _disconnect_timer is armed
    d_oplock,     \* _operation_lock is held
    sc_pc,        \* _sendcommand: "idle", "attempt" (inside the for loop) or "done"
    sc_retry,     \* its argument retry
    sc_attempt,   \* the loop variable attempt
    sc_tried,     \* _send_command_locked calls of this _sendcommand
    sc_sent,      \* write_gatt_char calls of this _sendcommand that went out
    sc_result,    \* how _sendcommand ended: "response", "zero" (b"\x00") or the
                  \* name of the exception it raised; "" while it runs
    sc_calls      \* number of _sendcommand calls so far

sendvars == <<d_client, d_timer, d_oplock, sc_pc, sc_retry, sc_attempt, sc_tried,
              sc_sent, sc_result, sc_calls>>

VARIABLES
    rs_reverse,     \* SwitchbotRollerShade._reverse
    rs_position,    \* _get_adv_value("position"): NoneInt before the first advert
    rs_is_opening,  \* _is_opening
    rs_is_closing,  \* _is_closing
    rs_prev,        \* the position known before the last operation
    rs_last         \* the last operation: an advertisement with its data, or a
                    \* command

shadevars == <<rs_reverse, rs_position, rs_is_opening, rs_is_closing, rs_prev,
               rs_last>>

VARIABLES
    hm_adv,         \* SwitchbotEvaporativeHumidifier._sb_adv_data: has is FALSE
                    \* while it is None, data is its data["data"]
    hm_sends,       \* the number of commands handed to _send_command
    hm_last         \* the last set_mode call: its mode, the advertisement it
                    \* saw, the exception it raised and the command it sent

hmvars == <<hm_adv, hm_sends, hm_last>>

VARIABLES
    pw,             \* SwitchbotKeypadVision.add_password: the call and what it did
    af,             \* SwitchbotArtFrame.next_image / prev_image: what the getters
                    \* return, the call and what it did
    mp,             \* SwitchbotMeterProCO2.set_time_offset: the call and what it did
    li              \* calculate_light_intensity of a hub: the code and the result

\* SwitchbotDevice with several tasks on its event loop
VARIABLES
    c_client,       \* _client: "none", "connected", or "lost" (is_connected False)
    c_chars,        \* _read_char and _write_char are set
    c_timer,        \* _disconnect_timer: "none", or a handle armed before the
                    \* calls began ("stale") or by one of them ("fresh")
    c_timers,       \* the call_later handles pending on the loop
    c_conn_lock,    \* _connect_lock: its owner and the tasks waiting, in order
    c_op_lock,      \* _operation_lock: its owner and the tasks waiting, in order
    c_pc,           \* where each calling task is
    c_call,         \* each calling task's call: entry point, locals, outcome
    c_disc,         \* where the _execute_disconnect task is
    c_subs,         \* the tasks whose notification handler is subscribed
    c_dev,          \* the task whose command the device has yet to answer
    c_connections,  \* the connections establish_connection has made
    c_hist          \* what happened so far, for the properties

connvars == <<c_client, c_chars, c_timer, c_timers, c_conn_lock, c_op_lock, c_pc,
              c_call, c_disc, c_subs, c_dev, c_connections, c_hist>>

latevars == <<pw, af, mp, li, connvars>>

devvars == <<mtvars, sendvars, shadevars, hmvars, latevars>>

vars == <<rvars, lkvars, devvars>>

MeterIdle ==
    /\ mt_sd = NoneBytes
    /\ mt_mfr = NoneBytes
    /\ mt_out = Ok(EmptyMap)
    /\ mt_rec = EmptyMap
    /\ mt_pc = "idle"

SendIdle ==
    /\ d_client = "none"
    /\ d_timer = FALSE
    /\ d_oplock = FALSE
    /\ sc_pc = "idle"
    /\ sc_retry = 0
    /\ sc_attempt = 0
    /\ sc_tried = 0
    /\ sc_sent = 0
    /\ sc_result = ""
    /\ sc_calls = 0

NoShadeOp == [kind |-> "none", in_motion |-> FALSE, position |-> NoneInt]

ShadeIdle ==
    /\ rs_reverse = TRUE
    /\ rs_position = NoneInt
    /\ rs_is_opening = FALSE
    /\ rs_is_closing = FALSE
    /\ rs_prev = NoneInt
    /\ rs_last = NoShadeOp

NoAdv == [has |-> FALSE, data |-> EmptyMap]

NoSetMode == [mode |-> 0, adv |-> NoAdv, raised |-> "", command |-> <<>>]

HumidifierIdle ==
    /\ hm_adv = NoAdv
    /\ hm_sends = 0
    /\ hm_last = NoSetMode

NoPassword == [pc |-> "idle", password |-> <<>>, raised |-> "", cmds |-> <<>>]

NoFrameOp == [pc |-> "idle", current |-> NoneInt, all |-> <<>>, basic_ok |-> TRUE,
              offset |-> 0, raised |-> "", cmd |-> <<>>]

NoOffsetOp == [pc |-> "idle", module |-> "", offset_seconds |-> 0, result_ok |-> TRUE,
               raised |-> "", payload |-> <<>>]

NoLight == [pc |-> "idle", hub |-> "", light_level |-> 0, illuminance |-> 0]

Callers == {1, 2}

FreeLock == [owner |-> 0, waiters |-> <<>>]

NoCallerOp == [kind |-> "", session |-> 0, resp |-> 0, ret |-> "",
               snap |-> [client |-> "", chars |-> FALSE, timers |-> 0]]

NoHist == [torn |-> FALSE, lost |-> FALSE, early |-> FALSE, concurrent |-> FALSE,
           base |-> 0]

ConnIdle ==
    /\ c_client = "none"
    /\ c_chars = FALSE
    /\ c_timer = "none"
    /\ c_timers = 0
    /\ c_conn_lock = FreeLock
    /\ c_op_lock = FreeLock
    /\ c_pc = [t \in Callers |-> "idle"]
    /\ c_call = [t \in Callers |-> NoCallerOp]
    /\ c_disc = "idle"
    /\ c_subs = {}
    /\ c_dev = 0
    /\ c_connections = 0
    /\ c_hist = NoHist

LateIdle ==
    /\ pw = NoPassword
    /\ af = NoFrameOp
    /\ mp = NoOffsetOp
    /\ li = NoLight
    /\ ConnIdle

DevIdle == MeterIdle /\ SendIdle /\ ShadeIdle /\ HumidifierIdle /\ LateIdle


maxsize == 128

NoCall == [input |-> 0, hit |-> FALSE, kind |-> "", exc |-> "", model |-> NoneModel,
           type_idx |-> 0, parsed |-> EmptyMap, ran |-> FALSE]

NoRet == [kind |-> "init", obj |-> 0, active |-> 0, snap |-> EmptyMap]

Unset == [kind |-> "unset", active |-> 0, snap |-> EmptyMap]

NoRace == [pc |-> "idle", input |-> 0, dup |-> FALSE, kind |-> "", obj |-> 0,
           parsed |-> EmptyMap, ls_before |-> -1]

ResolverInit ==
    /\ race = NoRace
    /\ cache = <<>>
    /\ objs = <<>>
    /\ made = <<>>
    /\ lastStatus = -1
    /\ logged = 0
    /\ relay_adv = 0
    /\ relay_exc = ""
    /\ ret = NoRet
    /\ call = NoCall
    /\ calls = 0
    /\ firstOut = [i \in InputIdx |-> Unset]

TableIdle ==
    /\ lk_entry = 0
    /\ lk_char = NoneModel
    /\ lk_fwd = 0
    /\ lk_pc = "idle"

Init ==
    /\ ResolverInit
    /\ TableIdle
    /\ DevIdle

\* ------------------------------------------------------------------------
\* switchbot/adv_parser.py: parse_advertisement_data
\* ------------------------------------------------------------------------
\* a selection that takes the payload of whatever service UUID is present
select_service_data_any_uuid(service_data) ==
    IF DOMAIN service_data = {} THEN NoneBytes
    ELSE service_data[CHOOSE u \in DOMAIN service_data : TRUE]

\* lines 369-373: the payload of the first service UUID present, or None
select_service_data(service_data) ==
    LET present == {k \in 1..Len(SERVICE_DATA_ORDER) :
                       SERVICE_DATA_ORDER[k] \in DOMAIN service_data}
    IN  IF present = {} THEN NoneBytes
        ELSE service_data[SERVICE_DATA_ORDER[CHOOSE k \in present :
                                                \A j \in present : k <= j]]

\* lines 375-381: <<_mfr_id, _mfr_data>> of the first company id present
select_mfr_data(manufacturer_data) ==
    LET present == {k \in 1..Len(MFR_DATA_ORDER) :
                       MFR_DATA_ORDER[k] \in DOMAIN manufacturer_data}
        first   == CHOOSE k \in present : \A j \in present : k <= j
    IN  IF present = {} THEN <<NoneInt, NoneBytes>>
        ELSE <<MFR_DATA_ORDER[first], manufacturer_data[MFR_DATA_ORDER[first]]>>

\* a handler that lets everything but IndexError through
CaughtIndexErrorOnly(exc) == exc = "IndexError"

\* line 393, "except Exception": the exceptions the handler catches
Caught(exc) == exc \in {"IndexError", "ValueError", "KeyError", "struct.error"}

\* a lookup that compares the payloads and the company id but not the hint
CacheFindIgnoringHint(c, key) ==
    IF \E k \in 1..Len(c) : SubSeq(c[k].key, 1, 3) = SubSeq(key, 1, 3)
    THEN CHOOSE k \in 1..Len(c) : SubSeq(c[k].key, 1, 3) = SubSeq(key, 1, 3)
    ELSE 0

\* position of key in the lru_cache, 0 on a miss
CacheFind(c, key) ==
    IF \E k \in 1..Len(c) : c[k].key = key
    THEN CHOOSE k \in 1..Len(c) : c[k].key = key
    ELSE 0

\* a hit makes the entry the most recently used
CacheTouch(c, k) ==
    SubSeq(c, 1, k - 1) \o SubSeq(c, k + 1, Len(c)) \o <<c[k]>>

\* a miss stores the result, evicting the least recently used entry when full
CachePut(c, key, val) ==
    (IF Len(c) >= maxsize THEN Tail(c) ELSE c) \o <<[key |-> key, val |-> val]>>

Outcome(r) == [kind |-> r.kind, active |-> r.active, snap |-> r.snap]

Remember(i, r) ==
    firstOut' = IF firstOut[i].kind = "unset"
                THEN [firstOut EXCEPT ![i] = Outcome(r)] ELSE firstOut

RetNone == [kind |-> "none", obj |-> 0, active |-> 0, snap |-> EmptyMap]

RetAdv(o, rec, service_data) ==
    [kind |-> "adv", obj |-> o, active |-> Bool(IF Truthy(service_data) THEN 1 ELSE 0),
     snap |-> rec]

parse_advertisement_data(i) ==
    LET inp == Inputs[i]
        new == Len(objs) + 1
        Miss(service_data, key, b) ==
            /\ lastStatus' = b.ls
            /\ call' = [input |-> i, hit |-> FALSE, kind |-> b.kind, exc |-> b.exc,
                        model |-> b.model, type_idx |-> b.type_idx,
                        parsed |-> b.parsed, ran |-> b.ran]
            /\ IF b.kind = "raise"
               THEN IF Caught(b.exc)
                    THEN /\ logged' = logged + 1
                         /\ ret' = RetNone
                         /\ Remember(i, RetNone)
                         /\ UNCHANGED <<cache, objs, made>>
                    ELSE /\ ret' = [RetNone EXCEPT !.kind = "raised"]
                         /\ Remember(i, [RetNone EXCEPT !.kind = "raised"])
                         /\ UNCHANGED <<cache, objs, made, logged>>
               ELSE IF b.kind = "none"
               THEN /\ cache' = CachePut(cache, key, 0)
                    /\ ret' = RetNone
                    /\ Remember(i, RetNone)
                    /\ UNCHANGED <<objs, made, logged>>
               ELSE /\ objs' = Append(objs, b.rec)
                    /\ made' = Append(made, [type_idx |-> b.type_idx,
                                             parsed |-> b.parsed])
                    /\ cache' = CachePut(cache, key, new)
                    /\ ret' = RetAdv(new, b.rec, service_data)
                    /\ Remember(i, RetAdv(new, b.rec, service_data))
                    /\ UNCHANGED logged
        Hit(service_data, hit, r) ==
            /\ cache' = CacheTouch(cache, hit)
            /\ call' = [NoCall EXCEPT !.input = i, !.hit = TRUE, !.kind = "hit"]
            /\ ret' = r
            /\ Remember(i, r)
            /\ UNCHANGED <<objs, made, lastStatus, logged>>
        Cached(service_data, mfr_data, mfr_id, key, hit) ==
            IF IsNone(mfr_data) /\ IsNone(service_data)
            THEN /\ ret' = RetNone
                 /\ call' = [NoCall EXCEPT !.input = i, !.kind = "absent"]
                 /\ Remember(i, RetNone)
                 /\ UNCHANGED <<cache, objs, made, lastStatus, logged>>
            ELSE IF hit # 0
            THEN Hit(service_data, hit,
                     IF cache[hit].val = 0 THEN RetNone
                     ELSE RetAdv(cache[hit].val, objs[cache[hit].val], service_data))
            ELSE Miss(service_data, key,
                      parse_data_body(service_data, mfr_data, mfr_id, inp.model,
                                      lastStatus))
        Keyed(service_data, mfr_data, mfr_id, key) ==
            Cached(service_data, mfr_data, mfr_id, key, CacheFind(cache, key))
        Picked(service_data, sel) ==
            Keyed(service_data, sel[2], sel[1],
                  <<service_data, sel[2], sel[1], inp.model>>)
    IN  /\ calls < MaxCalls
        /\ calls' = calls + 1
        /\ UNCHANGED <<relay_adv, relay_exc, race, lkvars, devvars>>
        /\ Picked(select_service_data(inp.adv.service_data),
                  select_mfr_data(inp.adv.manufacturer_data))

\* ------------------------------------------------------------------------
\* switchbot/devices/relay_switch.py, switchbot/devices/device.py
\* A SwitchbotRelaySwitch of model RELAY_SWITCH_1PM without _channel.
\* ------------------------------------------------------------------------
RelayKeys == <<"voltage", "current", "power", "energy">>

\* x or 0
OrZero(x) == IF x = NoneInt THEN 0 ELSE x

\* lines 133-136: adv_data[key] = self._get_adv_value(key) or 0, key by key;
\* _get_adv_value (device.py 222-226) raises KeyError for a key the stored
\* advertisement lacks
RECURSIVE RelaySetKeys(_, _, _, _)
RelaySetKeys(os, o, old, keys) ==
    IF keys = <<>> THEN [objs |-> os, exc |-> ""]
    ELSE LET k == Head(keys)
         IN  IF old # 0 /\ k \notin DOMAIN os[old].data
             THEN [objs |-> os, exc |-> "KeyError"]
             ELSE LET v == IF old = 0 THEN 0 ELSE OrZero(os[old].data[k])
                  IN  RelaySetKeys([os EXCEPT ![o].data = (k :> v) @@ @],
                                   o, old, Tail(keys))

\* the scanner hands the advertisement just resolved to the relay switch
update_from_advertisement ==
    /\ ret.kind = "adv"
    /\ objs[ret.obj].model = Chr(60)
    /\ LET r == RelaySetKeys(objs, ret.obj, relay_adv, RelayKeys)
       IN  /\ objs' = r.objs
           /\ relay_exc' = r.exc
           /\ relay_adv' = IF r.exc = "" THEN ret.obj ELSE relay_adv
    /\ UNCHANGED <<cache, made, lastStatus, logged, ret, call, calls, firstOut, race,
                   lkvars, devvars>>

\* ------------------------------------------------------------------------
\* A second scanning callback that calls the resolver from another thread.
\* functools.lru_cache looks the key up, calls _parse_data on a miss without
\* holding a lock, and afterwards stores the result unless the key has been
\* cached in the meantime; the caller gets the result it computed.
\* ------------------------------------------------------------------------
InputKey(i) ==
    LET Keyed(service_data, sel) == <<service_data, sel[2], sel[1], Inputs[i].model>>
    IN  Keyed(select_service_data(Inputs[i].adv.service_data),
              select_mfr_data(Inputs[i].adv.manufacturer_data))

\* the callback passes lines 367-384 and misses the cache
race_miss(i) ==
    /\ calls < MaxCalls
    /\ race.pc # "computing"
    /\ ~(IsNone(InputKey(i)[1]) /\ IsNone(InputKey(i)[2]))
    /\ CacheFind(cache, InputKey(i)) = 0
    /\ calls' = calls + 1
    /\ race' = [NoRace EXCEPT !.pc = "computing", !.input = i]
    /\ UNCHANGED <<cache, objs, made, lastStatus, logged, relay_adv, relay_exc, ret,
                   call, firstOut, lkvars, devvars>>

\* the callback runs the body of _parse_data, stores and returns
race_finish ==
    LET new == Len(objs) + 1
        Done(key, b, dup) ==
            /\ lastStatus' = b.ls
            /\ IF b.kind = "raise"
               THEN /\ logged' = logged + (IF Caught(b.exc) THEN 1 ELSE 0)
                    /\ race' = [race EXCEPT !.pc = "done", !.kind = "raise",
                                            !.ls_before = lastStatus]
                    /\ UNCHANGED <<cache, objs, made>>
               ELSE IF b.kind = "none"
               THEN /\ cache' = IF dup THEN cache ELSE CachePut(cache, key, 0)
                    /\ race' = [race EXCEPT !.pc = "done", !.kind = "none",
                                            !.dup = dup, !.ls_before = lastStatus]
                    /\ UNCHANGED <<objs, made, logged>>
               ELSE /\ objs' = Append(objs, b.rec)
                    /\ made' = Append(made, [type_idx |-> b.type_idx,
                                             parsed |-> b.parsed])
                    /\ cache' = IF dup THEN cache ELSE CachePut(cache, key, new)
                    /\ race' = [race EXCEPT !.pc = "done", !.kind = "adv",
                                            !.dup = dup, !.obj = new,
                                            !.parsed = b.parsed,
                                            !.ls_before = lastStatus]
                    /\ UNCHANGED logged
        Run(key) ==
            Done(key, parse_data_body(key[1], key[2], key[3], key[4], lastStatus),
                 CacheFind(cache, key) # 0)
    IN  /\ race.pc = "computing"
        /\ Run(InputKey(race.input))
        /\ UNCHANGED <<relay_adv, relay_exc, ret, call, calls, firstOut, lkvars, devvars>>

Next ==
    \/ \E i \in InputIdx : parse_advertisement_data(i)
    \/ update_from_advertisement

Spec == Init /\ [][Next]_vars

\* two scanning callbacks that resolve keypad and relay advertisements
RaceInputs == 1..6

NextRace ==
    \/ \E i \in RaceInputs : parse_advertisement_data(i)
    \/ \E i \in RaceInputs : race_miss(i)
    \/ race_finish

SpecRace == Init /\ [][NextRace]_vars

\* ------------------------------------------------------------------------
\* The dispatch table and its reverse index, looked up entry by entry
\* ------------------------------------------------------------------------
InitTable ==
    /\ ResolverInit
    /\ DevIdle
    /\ lk_entry \in TableIdx
    /\ lk_char = NoneModel
    /\ lk_fwd = 0
    /\ lk_pc = "start"

\* _SWITCHBOT_MODEL_TO_CHAR[SUPPORTED_TYPES[key]["modelName"]]
ReverseLookup ==
    /\ lk_pc = "start"
    /\ lk_char' = SWITCHBOT_MODEL_TO_CHAR(SUPPORTED_TYPES[lk_entry].modelName)
    /\ lk_pc' = "reversed"
    /\ UNCHANGED <<lk_entry, lk_fwd, rvars, devvars>>

\* SUPPORTED_TYPES.get(the discriminator the reverse index returned)
ForwardLookup ==
    /\ lk_pc = "reversed"
    /\ lk_fwd' = SupportedGet(lk_char)
    /\ lk_pc' = "done"
    /\ UNCHANGED <<lk_entry, lk_char, rvars, devvars>>

NextTable == ReverseLookup \/ ForwardLookup

SpecTable == InitTable /\ [][NextTable]_vars

\* ------------------------------------------------------------------------
\* Hub 2 and Hub Mini Matter advertisements, over the bytes of the reading
\* ------------------------------------------------------------------------
Hub2SD == <<118, 0, 0>>

HubMiniSD == <<37, 0, 0>>

\* temp_data[0]: the low nibble is the decimal of the temperature
MeterByte0 == {0, 5, 16, 240}

\* temp_data[1]: bit 7 is the sign, the rest the integer part
MeterByte1 == {0, 128, 25, 153}

\* temp_data[2]: bit 7 is the fahrenheit flag, the rest the humidity
MeterByte2 == {0, 128, 50, 178}

\* mfr_data[12]: the low five bits are the light level
MeterStatus == {0, 5, 33}

\* bytes cut off the end of the 16 byte payload
MeterCut == 0..4

MeterMfr(status, t0, t1, t2, cut) ==
    SubSeq(Hdr \o <<0, 0, 0, 0, 0, 0, status, t0, t1, t2>>, 1, 16 - cut)

InitMeter ==
    /\ ResolverInit
    /\ TableIdle
    /\ mt_sd \in {Hub2SD, HubMiniSD}
    /\ mt_mfr \in {MeterMfr(st, t0, t1, t2, cut) :
                      st \in MeterStatus, t0 \in MeterByte0, t1 \in MeterByte1,
                      t2 \in MeterByte2, cut \in MeterCut}
    /\ mt_out = Ok(EmptyMap)
    /\ mt_rec = EmptyMap
    /\ mt_pc = "start"
    /\ SendIdle
    /\ ShadeIdle
    /\ HumidifierIdle
    /\ LateIdle

\* the advertisement is resolved: the parser of its model runs inside
\* _parse_data
parse_meter ==
    /\ mt_pc = "start"
    /\ mt_out' = IF mt_sd = Hub2SD THEN process_wohub2(mt_sd, mt_mfr)
                  ELSE process_hubmini_matter(mt_sd, mt_mfr)
    /\ mt_rec' = parse_data_body(mt_sd, mt_mfr, 2409, NoneStr, lastStatus)
    /\ mt_pc' = "done"
    /\ UNCHANGED <<mt_sd, mt_mfr, rvars, lkvars, sendvars, shadevars, hmvars,
                   latevars>>

NextMeter == parse_meter

SpecMeter == InitMeter /\ [][NextMeter]_vars

\* ------------------------------------------------------------------------
\* switchbot/devices/device.py: SwitchbotDevice._sendcommand
\* ------------------------------------------------------------------------
MaxRetry == 2

MaxSends == 3

\* how one _send_command_locked call goes: the notification arrives, or
\* establish_connection, start_notify or write_gatt_char raise BleakError, or
\* no notification arrives within 5 seconds (asyncio TimeoutError)
SendOutcomes == {"ok", "connect_error", "notify_error", "write_error", "timeout"}

\* line 36
BLEAK_EXCEPTIONS == {"AttributeError", "BleakError", "TimeoutError"}

\* the exception an outcome raises inside _send_command_locked
SendException(outcome) ==
    IF outcome = "ok" THEN ""
    ELSE IF outcome = "timeout" THEN "TimeoutError"
    ELSE "BleakError"

\* lines 111-113: the expression of the except clause is evaluated when an
\* exception reaches it.  It calls the tuple BLEAK_EXCEPTIONS, which raises
\* TypeError ('tuple' object is not callable): the clause matches nothing and
\* the TypeError leaves the try statement.
ExceptClause(exc) == "TypeError"

\* lines 94-108: the command is built and the operation lock acquired
sendcommand(retry) ==
    /\ sc_pc \in {"idle", "done"}
    /\ sc_calls < MaxSends
    /\ ~d_oplock
    /\ d_oplock' = TRUE
    /\ sc_pc' = "attempt"
    /\ sc_retry' = retry
    /\ sc_attempt' = 0
    /\ sc_tried' = 0
    /\ sc_sent' = 0
    /\ sc_result' = ""
    /\ sc_calls' = sc_calls + 1
    /\ UNCHANGED <<d_client, d_timer, rvars, lkvars, mtvars, shadevars, hmvars,
                   latevars>>

\* lines 109-119: one iteration of the for loop, with _send_command_locked
\* (lines 185-216) and _ensure_connected (lines 128-155)
send_command_locked(outcome) ==
    LET Ended(exc, handled) ==
            IF exc = ""
            THEN /\ sc_result' = "response"
                 /\ sc_pc' = "done"
                 /\ d_oplock' = FALSE
                 /\ UNCHANGED sc_attempt
            ELSE IF handled = "TypeError"
            THEN /\ sc_result' = "TypeError"
                 /\ sc_pc' = "done"
                 /\ d_oplock' = FALSE
                 /\ UNCHANGED sc_attempt
            ELSE IF handled = "no match"
            THEN /\ sc_result' = exc
                 /\ sc_pc' = "done"
                 /\ d_oplock' = FALSE
                 /\ UNCHANGED sc_attempt
            ELSE IF sc_attempt = sc_retry
            THEN /\ sc_result' = "zero"
                 /\ sc_pc' = "done"
                 /\ d_oplock' = FALSE
                 /\ UNCHANGED sc_attempt
            ELSE /\ sc_attempt' = sc_attempt + 1
                 /\ UNCHANGED <<sc_result, sc_pc, d_oplock>>
    IN  /\ sc_pc = "attempt"
        /\ outcome = "connect_error" => d_client # "connected"
        /\ sc_tried' = sc_tried + 1
        /\ IF d_client = "connected"
           THEN d_timer' = TRUE /\ UNCHANGED d_client
           ELSE IF outcome = "connect_error"
           THEN UNCHANGED <<d_client, d_timer>>
           ELSE d_client' = "connected" /\ d_timer' = TRUE
        /\ sc_sent' = IF outcome \in {"ok", "timeout"} THEN sc_sent + 1 ELSE sc_sent
        /\ Ended(SendException(outcome), ExceptClause(SendException(outcome)))
        /\ UNCHANGED <<sc_retry, sc_calls, rvars, lkvars, mtvars, shadevars, hmvars,
                   latevars>>

\* the peer drops the connection: client.is_connected becomes False
connection_lost ==
    /\ d_client = "connected"
    /\ d_client' = "lost"
    /\ UNCHANGED <<d_timer, d_oplock, sc_pc, sc_retry, sc_attempt, sc_tried, sc_sent,
                   sc_result, sc_calls, rvars, lkvars, mtvars, shadevars, hmvars,
                   latevars>>

\* lines 165-183: the disconnect timer fires, _disconnect and
\* _execute_disconnect run
execute_disconnect ==
    /\ d_timer
    /\ d_timer' = FALSE
    /\ d_client' = IF d_client = "connected" THEN "none" ELSE d_client
    /\ UNCHANGED <<d_oplock, sc_pc, sc_retry, sc_attempt, sc_tried, sc_sent,
                   sc_result, sc_calls, rvars, lkvars, mtvars, shadevars, hmvars,
                   latevars>>

InitSend ==
    /\ ResolverInit
    /\ TableIdle
    /\ MeterIdle
    /\ SendIdle
    /\ ShadeIdle
    /\ HumidifierIdle
    /\ LateIdle

NextSend ==
    \/ \E retry \in 0..MaxRetry : sendcommand(retry)
    \/ \E outcome \in SendOutcomes : send_command_locked(outcome)
    \/ connection_lost
    \/ execute_disconnect

SpecSend == InitSend /\ [][NextSend]_vars

\* ------------------------------------------------------------------------
\* switchbot/devices/roller_shade.py: SwitchbotRollerShade
\* The base classes (base_cover.py, SwitchbotSequenceDevice) are modelled as
\* far as the roller shade relies on them: the flags start False, an
\* advertisement is handed to _set_parsed_data and then becomes the stored
\* one, is_opening() and is_closing() return the flags.
\* ------------------------------------------------------------------------
ShadePositions == {0, 10, 90, 100}

\* a motion update that keeps the flags when the shade reports no motion
update_motion_direction_keep_on_stop(in_motion, previous_position, new_position, opening, closing) ==
    IF previous_position = NoneInt THEN <<opening, closing>>
    ELSE IF new_position # previous_position /\ in_motion
    THEN <<new_position > previous_position, new_position < previous_position>>
    ELSE <<opening, closing>>

\* a motion update that clears only the opening flag when the shade reports
\* no motion
update_motion_direction_stop_opening_only(in_motion, previous_position, new_position, opening, closing) ==
    IF previous_position = NoneInt THEN <<opening, closing>>
    ELSE IF in_motion = FALSE THEN <<FALSE, closing>>
    ELSE IF new_position # previous_position
    THEN <<new_position > previous_position, new_position < previous_position>>
    ELSE <<opening, closing>>

\* a motion update that sets the flag of the new direction and leaves the
\* other flag alone
update_motion_direction_set_only(in_motion, previous_position, new_position, opening, closing) ==
    IF previous_position = NoneInt THEN <<opening, closing>>
    ELSE IF in_motion = FALSE THEN <<FALSE, FALSE>>
    ELSE IF new_position # previous_position
    THEN <<opening \/ new_position > previous_position,
           closing \/ new_position < previous_position>>
    ELSE <<opening, closing>>

\* lines 117-129: <<_is_opening, _is_closing>> afterwards
update_motion_direction(in_motion, previous_position, new_position, opening, closing) ==
    IF previous_position = NoneInt THEN <<opening, closing>>
    ELSE IF in_motion = FALSE THEN <<FALSE, FALSE>>
    ELSE IF new_position # previous_position
    THEN <<new_position > previous_position, new_position < previous_position>>
    ELSE <<opening, closing>>

\* lines 41-49: update_from_advertisement hands the parsed data to
\* _set_parsed_data
shade_advertisement(in_motion, position) ==
    LET Flags(f) == rs_is_opening' = f[1] /\ rs_is_closing' = f[2]
    IN  /\ Flags(update_motion_direction(in_motion, rs_position, position,
                                         rs_is_opening, rs_is_closing))
        /\ rs_prev' = rs_position
        /\ rs_position' = position
        /\ rs_last' = [kind |-> "adv", in_motion |-> in_motion, position |-> position]
        /\ UNCHANGED <<rs_reverse, rvars, lkvars, mtvars, sendvars, hmvars,
                   latevars>>

\* lines 51-56
shade_open ==
    /\ rs_is_opening' = TRUE
    /\ rs_is_closing' = FALSE
    /\ rs_prev' = rs_position
    /\ rs_last' = [NoShadeOp EXCEPT !.kind = "open"]
    /\ UNCHANGED <<rs_reverse, rs_position, rvars, lkvars, mtvars, sendvars, hmvars,
                   latevars>>

\* lines 58-63
shade_close ==
    /\ rs_is_closing' = TRUE
    /\ rs_is_opening' = FALSE
    /\ rs_prev' = rs_position
    /\ rs_last' = [NoShadeOp EXCEPT !.kind = "close"]
    /\ UNCHANGED <<rs_reverse, rs_position, rvars, lkvars, mtvars, sendvars, hmvars,
                   latevars>>

\* lines 65-69
shade_stop ==
    /\ rs_is_opening' = FALSE
    /\ rs_is_closing' = FALSE
    /\ rs_prev' = rs_position
    /\ rs_last' = [NoShadeOp EXCEPT !.kind = "stop"]
    /\ UNCHANGED <<rs_reverse, rs_position, rvars, lkvars, mtvars, sendvars, hmvars,
                   latevars>>

\* lines 71-81
shade_set_position(position) ==
    LET Flags(f) == rs_is_opening' = f[1] /\ rs_is_closing' = f[2]
        Target(p) ==
            /\ Flags(update_motion_direction(TRUE, rs_position, p,
                                             rs_is_opening, rs_is_closing))
            /\ rs_last' = [kind |-> "set_position", in_motion |-> TRUE,
                           position |-> p]
    IN  /\ Target(IF rs_reverse THEN 100 - position ELSE position)
        /\ rs_prev' = rs_position
        /\ UNCHANGED <<rs_reverse, rs_position, rvars, lkvars, mtvars, sendvars, hmvars,
                   latevars>>

\* the basic-info responses read: byte 4 (flags) and byte 5 (position)
BasicInfoFlags == {0, 1, 2, 128, 131}

BasicInfoPositions == {0, 10, 90, 100, 200}

\* lines 88-99: get_basic_info; has is FALSE when _get_basic_info returned
\* None
shade_get_basic_info(has, data4, data5) ==
    LET Flags(f) == rs_is_opening' = f[1] /\ rs_is_closing' = f[2]
        Read(in_motion, p) ==
            /\ Flags(update_motion_direction(in_motion, rs_position, p,
                                             rs_is_opening, rs_is_closing))
            /\ rs_last' = [kind |-> "basic_info", in_motion |-> in_motion,
                           position |-> p]
        Adjusted(in_motion, p) == Read(in_motion, IF rs_reverse THEN 100 - p ELSE p)
    IN  /\ IF has
           THEN Adjusted(BitAnd(data4, 3) # 0, Max(Min(data5, 100), 0))
           ELSE /\ rs_last' = [NoShadeOp EXCEPT !.kind = "basic_info_none"]
                /\ UNCHANGED <<rs_is_opening, rs_is_closing>>
        /\ rs_prev' = rs_position
        /\ UNCHANGED <<rs_reverse, rs_position, rvars, lkvars, mtvars, sendvars, hmvars,
                   latevars>>

InitShade ==
    /\ ResolverInit
    /\ TableIdle
    /\ MeterIdle
    /\ SendIdle
    /\ HumidifierIdle
    /\ LateIdle
    /\ rs_reverse \in BOOLEAN
    /\ rs_position = NoneInt
    /\ rs_is_opening = FALSE
    /\ rs_is_closing = FALSE
    /\ rs_prev = NoneInt
    /\ rs_last = NoShadeOp

NextShade ==
    \/ \E in_motion \in BOOLEAN, position \in ShadePositions :
          shade_advertisement(in_motion, position)
    \/ shade_open
    \/ shade_close
    \/ shade_stop
    \/ \E position \in ShadePositions : shade_set_position(position)
    \/ \E has \in BOOLEAN, data4 \in BasicInfoFlags, data5 \in BasicInfoPositions :
          shade_get_basic_info(has, data4, data5)

SpecShade == InitShade /\ [][NextShade]_vars

\* ------------------------------------------------------------------------
\* switchbot/devices/evaporative_humidifier.py: set_mode
\* ------------------------------------------------------------------------
TARGET_HUMIDITY == 5

SLEEP == 6

AUTO == 7

DRYING_FILTER == 8

TARGET_HUMIDITY_MODES == {SLEEP, TARGET_HUMIDITY}

COMMAND_SET_MODE == "570f4302"

COMMAND_SET_DRYING_FILTER == "570f43010108"

MODES_COMMANDS(mode) ==
    CASE mode = 1 -> "010100"
      [] mode = 2 -> "010200"
      [] mode = 3 -> "010300"
      [] mode = 4 -> "010400"
      [] mode = TARGET_HUMIDITY -> "0200"
      [] mode = SLEEP -> "0300"
      [] mode = AUTO -> "040000"

\* SwitchbotDevice._get_adv_value: None (none) without an advertisement,
\* else data["data"][key]
get_adv_value(adv, key, none) ==
    IF ~adv.has THEN Ok(none)
    ELSE IF key \notin DOMAIN adv.data THEN Raise("KeyError")
    ELSE Ok(adv.data[key])

get_water_level(adv) == get_adv_value(adv, "water_level", NoneStr)

is_meter_binded(adv) == get_adv_value(adv, "is_meter_binded", NoneInt)

get_target_humidity(adv) == get_adv_value(adv, "target_humidity", NoneInt)

\* the exception _validate_water_level leaves with, "" when it returns
validate_water_level(adv) ==
    LET Level(w) ==
            IF w.exc # "" THEN w.exc
            ELSE IF w.val = HumidifierWaterLevelName(0)
            THEN "SwitchbotOperationError"
            ELSE ""
    IN  Level(get_water_level(adv))

\* the exception _validate_meter_binding leaves with, "" when it returns
validate_meter_binding(adv, mode) ==
    LET Binding(b) ==
            IF b.exc # "" THEN b.exc
            ELSE IF (b.val = NoneInt \/ b.val = 0)
                    /\ mode \in {TARGET_HUMIDITY, AUTO}
            THEN "SwitchbotOperationError"
            ELSE ""
    IN  Binding(is_meter_binded(adv))

\* the body of set_mode: the exception it raises ("" when none) and the
\* command it hands to _send_command (<<>> when none).  The command is the
\* concatenation of its parts; the last part, a number, stands for its two
\* hex digits.
set_mode_body(adv, mode) ==
    LET Refuse(exc) == [raised |-> exc, command |-> <<>>]
        command == IF mode = DRYING_FILTER
                   THEN <<COMMAND_SET_DRYING_FILTER>>
                   ELSE <<COMMAND_SET_MODE, MODES_COMMANDS(mode)>>
        Target(t) ==
            IF t.exc # "" THEN Refuse(t.exc)
            ELSE IF t.val = NoneInt THEN Refuse("SwitchbotOperationError")
            ELSE [raised |-> "", command |-> Append(command, t.val)]
    IN  IF validate_water_level(adv) # ""
        THEN Refuse(validate_water_level(adv))
        ELSE IF validate_meter_binding(adv, mode) # ""
        THEN Refuse(validate_meter_binding(adv, mode))
        ELSE IF mode \in TARGET_HUMIDITY_MODES
        THEN Target(get_target_humidity(adv))
        ELSE [raised |-> "", command |-> command]

MaxModeSends == 2

set_mode(mode) ==
    LET Done(r) ==
            /\ r.command # <<>> => hm_sends < MaxModeSends
            /\ hm_last' = [mode |-> mode, adv |-> hm_adv, raised |-> r.raised,
                           command |-> r.command]
            /\ hm_sends' = IF r.command # <<>> THEN hm_sends + 1 ELSE hm_sends
    IN  /\ Done(set_mode_body(hm_adv, mode))
        /\ UNCHANGED <<hm_adv, rvars, lkvars, mtvars, sendvars, shadevars, latevars>>

\* manufacturer data of an evaporative humidifier: byte 9 holds the meter
\* binding, byte 11 the water level, byte 16 the target humidity
EvapMfr(bound, water, target) ==
    <<0, 0, 0, 0, 0, 0, 1, 129, 0, bound * 128 + 51, 144, 128 + water,
      0, 80, 0, 0, target>>

EvapTargets == {0, 45}

EvapAdverts ==
    {NoneBytes} \cup {EvapMfr(bound, water, target) :
                         bound \in {0, 1}, water \in 0..3, target \in EvapTargets}

\* SwitchbotDevice.update_from_advertisement with the advertisement
\* parse_advertisement_data builds for (EvapSD, mfr_data)
humidifier_advertisement(mfr_data) ==
    LET Store(p) ==
            /\ p.kind = "data"
            /\ hm_adv' = [has |-> TRUE, data |-> p.rec.data]
    IN  /\ Store(parse_data_body(EvapSD, mfr_data, 2409, NoneStr, lastStatus))
        /\ UNCHANGED <<hm_sends, hm_last, rvars, lkvars, mtvars, sendvars,
                       shadevars, latevars>>

InitHumidifier ==
    /\ ResolverInit
    /\ TableIdle
    /\ DevIdle

NextHumidifier ==
    \/ \E mfr_data \in EvapAdverts : humidifier_advertisement(mfr_data)
    \/ \E mode \in HumidifierModeValues : set_mode(mode)

SpecHumidifier == InitHumidifier /\ [][NextHumidifier]_vars

\* ------------------------------------------------------------------------
\* switchbot/devices/keypad_vision.py: add_password
\* ------------------------------------------------------------------------
\* the state outside the devices that were modelled after the first ones
oldvars == <<rvars, lkvars, mtvars, sendvars, shadevars, hmvars>>

OldIdle == ResolverInit /\ TableIdle /\ MeterIdle /\ SendIdle /\ ShadeIdle
           /\ HumidifierIdle

\* a str is the sequence of its code points
IsDigit(ch) == ch \in 48..57 \/ ch \in 1632..1641

\* int(ch) for a character \d matches
DigitValue(ch) == IF ch \in 48..57 THEN ch - 48 ELSE ch - 1632

\* PASSWORD_RE.fullmatch(password), PASSWORD_RE = ^\d{6,12}$
PASSWORD_RE(password) ==
    /\ Len(password) >= 6
    /\ Len(password) <= 12
    /\ \A i \in 1..Len(password) : IsDigit(password[i])

HexDigits == <<"0", "1", "2", "3", "4", "5", "6", "7", "8", "9",
               "A", "B", "C", "D", "E", "F">>

\* bytes.hex().upper(): a str of two hex digits a byte
RECURSIVE HexUpper(_)
HexUpper(b) ==
    IF Len(b) = 0 THEN <<>>
    ELSE <<HexDigits[(b[1] \div 16) + 1], HexDigits[(b[1] % 16) + 1]>>
         \o HexUpper(Tail(b))

build_password_payload(password) ==
    <<255, 0, Len(password)>> \o [i \in 1..Len(password) |-> DigitValue(password[i])]

max_payload == 11

\* range(0, n, max_payload) as the sequence of its values
ChunkStarts(n) == [k \in 1..((n + max_payload - 1) \div max_payload) |->
                      (k - 1) * max_payload]

\* ((total & 0x0F) << 4) | (idx & 0x0F)
packet_info_swapped(total, idx) == (idx % 16) * 16 + (total % 16)

packet_info(total, idx) == (total % 16) * 16 + (idx % 16)

cmd_header == <<87, 15, 82, 2, 2>>

build_add_password_cmd(password) ==
    LET Cmds(payload, starts) ==
            [k \in 1..Len(starts) |->
                HexUpper(cmd_header
                         \o <<packet_info(Len(starts), k - 1)>>
                         \o Slice(payload, starts[k], starts[k] + max_payload))]
        Chunked(payload) == Cmds(payload, ChunkStarts(Len(payload)))
    IN  Chunked(build_password_payload(password))

\* add_password: _check_password_rules, then the commands are handed to
\* _send_command_sequence
add_password ==
    /\ pw.pc = "start"
    /\ pw' = IF ~PASSWORD_RE(pw.password)
              THEN [pw EXCEPT !.pc = "done", !.raised = "ValueError"]
              ELSE [pw EXCEPT !.pc = "done",
                              !.cmds = build_add_password_cmd(pw.password)]
    /\ UNCHANGED <<oldvars, af, mp, li, connvars>>

PwLengths == 5..13

\* the digits start, start + step, ... of a password of n characters
DigitRun(n, start, step) == [i \in 1..n |-> 48 + ((start + (i - 1) * step) % 10)]

PasswordInputs ==
    LET runs == {DigitRun(n, start, step) :
                    n \in PwLengths, start \in 0..9, step \in {0, 1, 3}}
    IN  runs
        \cup {[r EXCEPT ![1] = 97] : r \in {DigitRun(n, 1, 1) : n \in PwLengths}}
        \cup {[r EXCEPT ![2] = 1632 + (r[2] - 48)] :
                 r \in {DigitRun(n, 1, 1) : n \in PwLengths}}

InitPassword ==
    /\ OldIdle
    /\ af = NoFrameOp
    /\ mp = NoOffsetOp
    /\ li = NoLight
    /\ ConnIdle
    /\ pw \in {[pc |-> "start", password |-> p, raised |-> "", cmds |-> <<>>] :
                  p \in PasswordInputs}

NextPassword == add_password

SpecPassword == InitPassword /\ [][NextPassword]_vars

\* ------------------------------------------------------------------------
\* switchbot/devices/art_frame.py: next_image, prev_image
\* ------------------------------------------------------------------------
COMMAND_SET_IMAGE == "570F7A02"

\* list.index(x), zero-based; -1 stands for the ValueError of a missing x
ListIndex(l, x) ==
    IF \E i \in 1..Len(l) : l[i] = x
    THEN (CHOOSE i \in 1..Len(l) : l[i] = x /\ \A j \in 1..(i - 1) : l[j] # x) - 1
    ELSE -1

\* _select_image_index without the modulo: the position is kept in range
select_image_index_no_wrap(current_index, all_images_index, offset) ==
    IF Len(all_images_index) <= 1 THEN Raise("RuntimeError")
    ELSE IF ListIndex(all_images_index, current_index) = -1 THEN Raise("ValueError")
    ELSE Ok(all_images_index[
                Max(0, Min(Len(all_images_index) - 1,
                           ListIndex(all_images_index, current_index) + offset)) + 1])

\* all_images_index is <<>> for an empty list and for None
select_image_index(current_index, all_images_index, offset) ==
    IF Len(all_images_index) <= 1 THEN Raise("RuntimeError")
    ELSE IF ListIndex(all_images_index, current_index) = -1 THEN Raise("ValueError")
    ELSE Ok(all_images_index[
                ((ListIndex(all_images_index, current_index) + offset)
                    % Len(all_images_index)) + 1])

\* next_image (offset 1) and prev_image (offset -1): _get_current_image_index,
\* _select_image_index, then the command is handed to _send_command
step_image(offset) ==
    LET Sent(r) ==
            IF r.exc # ""
            THEN [af EXCEPT !.pc = "done", !.offset = offset, !.raised = r.exc]
            ELSE [af EXCEPT !.pc = "done", !.offset = offset,
                            !.cmd = <<COMMAND_SET_IMAGE>> \o HexUpper(<<r.val>>)]
    IN  /\ af.pc = "start"
        /\ af' = IF ~af.basic_ok
                  THEN [af EXCEPT !.pc = "done", !.offset = offset,
                                  !.raised = "RuntimeError"]
                  ELSE Sent(select_image_index(af.current, af.all, offset))
        /\ UNCHANGED <<oldvars, pw, mp, li, connvars>>

next_image == step_image(1)

prev_image == step_image(-1)

ImageIds == {1, 100, 150}

\* the lists of distinct image ids, the empty one included
ImageLists ==
    {l \in UNION {[1..n -> ImageIds] : n \in 0..3} :
        \A i, j \in 1..Len(l) : i # j => l[i] # l[j]}

InitFrame ==
    /\ OldIdle
    /\ pw = NoPassword
    /\ mp = NoOffsetOp
    /\ li = NoLight
    /\ ConnIdle
    /\ af \in {[pc |-> "start", current |-> c, all |-> l, basic_ok |-> ok,
                offset |-> 0, raised |-> "", cmd |-> <<>>] :
                  c \in ImageIds \cup {7}, l \in ImageLists, ok \in BOOLEAN}

NextFrame ==
    \/ next_image
    \/ prev_image

SpecFrame == InitFrame /\ [][NextFrame]_vars

\* ------------------------------------------------------------------------
\* switchbot/devices/meter_pro.py and switchbot/devices/meter.py:
\* SwitchbotMeterProCO2.set_time_offset
\* ------------------------------------------------------------------------
COMMAND_SET_TIME_OFFSET == "570f680506"

\* meter_pro.py: (1 << 24) - 1; meter.py: 1 << 24 - 1, where the subtraction
\* binds first
MAX_TIME_OFFSET(module) ==
    IF module = "meter_pro" THEN Pow2(24) - 1 ELSE Pow2(24 - 1)

HexDigitsLower == <<"0", "1", "2", "3", "4", "5", "6", "7", "8", "9",
                    "a", "b", "c", "d", "e", "f">>

\* f"{n:x}" for n >= 0
RECURSIVE FormatHex(_)
FormatHex(n) ==
    IF n < 16 THEN <<HexDigitsLower[n + 1]>>
    ELSE Append(FormatHex(n \div 16), HexDigitsLower[(n % 16) + 1])

\* f"{n:06x}": zero-padded to six digits, longer when n needs more
FormatHex06(n) ==
    [i \in 1..(6 - Len(FormatHex(n))) |-> "0"] \o FormatHex(n)

abs(n) == IF n < 0 THEN -n ELSE n

\* the same body in both modules; the response is checked after the command
\* was sent
set_time_offset ==
    /\ mp.pc = "start"
    /\ mp' = IF abs(mp.offset_seconds) > MAX_TIME_OFFSET(mp.module)
              THEN [mp EXCEPT !.pc = "done", !.raised = "SwitchbotOperationError"]
              ELSE [mp EXCEPT
                      !.pc = "done",
                      !.payload = <<COMMAND_SET_TIME_OFFSET,
                                    IF mp.offset_seconds < 0 THEN "80" ELSE "00">>
                                  \o FormatHex06(abs(mp.offset_seconds)),
                      !.raised = IF mp.result_ok THEN ""
                                 ELSE "SwitchbotOperationError"]
    /\ UNCHANGED <<oldvars, pw, af, li, connvars>>

OffsetMagnitudes ==
    {0, 1, 255, 256, 4096, 65535, 65536, 1055689,
     Pow2(23) - 1, Pow2(23), Pow2(23) + 1, Pow2(24) - 2, Pow2(24) - 1,
     Pow2(24), Pow2(24) + 1, Pow2(25)}

InitOffset ==
    /\ OldIdle
    /\ pw = NoPassword
    /\ af = NoFrameOp
    /\ li = NoLight
    /\ ConnIdle
    /\ mp \in {[pc |-> "start", module |-> m, offset_seconds |-> sign * o,
                result_ok |-> ok, raised |-> "", payload |-> <<>>] :
                  m \in {"meter_pro", "meter"}, sign \in {1, -1},
                  o \in OffsetMagnitudes, ok \in BOOLEAN}

NextOffset == set_time_offset

SpecOffset == InitOffset /\ [][NextOffset]_vars

\* ------------------------------------------------------------------------
\* switchbot/adv_parsers/hub2.py, hub3.py: calculate_light_intensity
\* ------------------------------------------------------------------------
calculate_light_intensity ==
    /\ li.pc = "start"
    /\ li' = [li EXCEPT
                !.pc = "done",
                !.illuminance =
                    IF li.hub = "hub2"
                    THEN hub2_calculate_light_intensity(li.light_level)
                    ELSE hub3_calculate_light_intensity(li.light_level)]
    /\ UNCHANGED <<oldvars, pw, af, mp, connvars>>

LightLevels == -2..33

InitLight ==
    /\ OldIdle
    /\ pw = NoPassword
    /\ af = NoFrameOp
    /\ mp = NoOffsetOp
    /\ ConnIdle
    /\ li \in {[pc |-> "start", hub |-> h, light_level |-> l, illuminance |-> 0] :
                  h \in {"hub2", "hub3"}, l \in LightLevels}

NextLight == calculate_light_intensity

SpecLight == InitLight /\ [][NextLight]_vars

\* ------------------------------------------------------------------------
\* switchbot/devices/device.py: tasks that share one SwitchbotDevice.  Every
\* action is the code a task runs between two awaits.
\* ------------------------------------------------------------------------
DisconnectTask == 9

\* asyncio.Lock: acquire takes a free lock at once, else the task queues;
\* release hands the lock to the task that waited longest
LockIsFreeAlways(lock) == lock.owner = lock.owner

LockIsFree(lock) == lock.owner = 0

Acquire(lock, t) ==
    IF LockIsFree(lock) THEN [lock EXCEPT !.owner = t]
    ELSE [lock EXCEPT !.waiters = Append(@, t)]

Release(lock, t) ==
    IF lock.owner # t THEN lock
    ELSE IF lock.waiters = <<>> THEN FreeLock
    ELSE [owner |-> Head(lock.waiters), waiters |-> Tail(lock.waiters)]

InExchange(t) == c_pc[t] \in {"notify", "write", "wait"}

Active(t) == c_pc[t] \notin {"idle", "done"}

\* _reset_disconnect_timer (157-163): the pending handle is cancelled and a
\* new one scheduled
ResetTimer ==
    /\ c_timer' = "fresh"
    /\ c_timers' = IF c_timer # "none" THEN c_timers ELSE c_timers + 1

\* _ensure_connected returns to its caller: _send_command_locked goes on
\* with client = self._client; a direct call is over
Connected(t, client, chars, timers, connections, conn_lock) ==
    IF c_call[t].kind = "cmd"
    THEN /\ c_pc' = [c_pc EXCEPT ![t] = "notify"]
         /\ c_call' = [c_call EXCEPT ![t].session = connections]
         /\ UNCHANGED c_op_lock
    ELSE /\ c_pc' = [c_pc EXCEPT ![t] = "done"]
         /\ c_call' = [c_call EXCEPT
                         ![t].ret = "ok",
                         ![t].snap = [client |-> client, chars |-> chars,
                                      timers |-> timers]]
         /\ UNCHANGED c_op_lock

\* an exception leaves the call: in _sendcommand it reaches the except clause
\* (111-113) and the operation lock is released on the way out
Failed(t, exc) ==
    /\ c_pc' = [c_pc EXCEPT ![t] = "done"]
    /\ c_call' = [c_call EXCEPT
                    ![t].ret = IF c_call[t].kind = "cmd" THEN ExceptClause(exc)
                               ELSE exc]
    /\ c_op_lock' = Release(c_op_lock, t)

\* _sendcommand (94-108): async with self._operation_lock
call_sendcommand(t) ==
    /\ c_pc[t] = "idle"
    /\ c_pc' = [c_pc EXCEPT ![t] = "op"]
    /\ c_call' = [c_call EXCEPT ![t].kind = "cmd"]
    /\ c_op_lock' = Acquire(c_op_lock, t)
    /\ UNCHANGED <<c_client, c_chars, c_timer, c_timers, c_conn_lock, c_disc,
                   c_subs, c_dev, c_connections, c_hist, oldvars, pw, af, mp, li>>

\* a task calls _ensure_connected itself
call_ensure_connected(t) ==
    /\ c_pc[t] = "idle"
    /\ c_pc' = [c_pc EXCEPT ![t] = "ensure"]
    /\ c_call' = [c_call EXCEPT ![t].kind = "ensure"]
    /\ c_hist' = [c_hist EXCEPT
                    !.concurrent =
                        /\ c_client # "connected"
                        /\ \E u \in Callers \ {t} :
                              /\ c_call[u].kind = "ensure"
                              /\ c_pc[u] \in {"ensure", "conn", "connecting"},
                    !.base = IF \E u \in Callers \ {t} : Active(u) THEN @
                             ELSE c_connections,
                    !.lost = IF \E u \in Callers \ {t} : Active(u) THEN @
                             ELSE FALSE]
    /\ UNCHANGED <<c_client, c_chars, c_timer, c_timers, c_conn_lock, c_op_lock,
                   c_disc, c_subs, c_dev, c_connections, oldvars, pw, af, mp, li>>

\* _ensure_connected (128-137): the check without the lock, then
\* async with self._connect_lock
ensure_connected(t) ==
    /\ \/ c_pc[t] = "ensure"
       \/ c_pc[t] = "op" /\ c_op_lock.owner = t
    /\ IF c_client = "connected"
       THEN /\ ResetTimer
            /\ Connected(t, c_client, c_chars, c_timers', c_connections, c_conn_lock)
            /\ UNCHANGED c_conn_lock
       ELSE /\ c_conn_lock' = Acquire(c_conn_lock, t)
            /\ c_pc' = [c_pc EXCEPT ![t] = "conn"]
            /\ UNCHANGED <<c_timer, c_timers, c_call, c_op_lock>>
    /\ UNCHANGED <<c_client, c_chars, c_disc, c_subs, c_dev, c_connections, c_hist,
                   oldvars, pw, af, mp, li>>

\* _ensure_connected (138-148): the check under the lock, then
\* await establish_connection
ensure_connected_locked(t) ==
    /\ c_pc[t] = "conn"
    /\ c_conn_lock.owner = t
    /\ IF c_client = "connected"
       THEN /\ ResetTimer
            /\ c_conn_lock' = Release(c_conn_lock, t)
            /\ Connected(t, c_client, c_chars, c_timers', c_connections, c_conn_lock)
       ELSE /\ c_pc' = [c_pc EXCEPT ![t] = "connecting"]
            /\ UNCHANGED <<c_timer, c_timers, c_conn_lock, c_call, c_op_lock>>
    /\ UNCHANGED <<c_client, c_chars, c_disc, c_subs, c_dev, c_connections, c_hist,
                   oldvars, pw, af, mp, li>>

\* _ensure_connected (143-155): establish_connection returns a client or
\* raises
connection_established(t, ok) ==
    /\ c_pc[t] = "connecting"
    /\ c_conn_lock' = Release(c_conn_lock, t)
    /\ IF ok
       THEN /\ c_client' = "connected"
            /\ c_chars' = TRUE
            /\ c_connections' = c_connections + 1
            /\ c_subs' = {}
            /\ ResetTimer
            /\ Connected(t, "connected", TRUE, c_timers', c_connections + 1,
                         c_conn_lock)
       ELSE /\ Failed(t, "BleakError")
            /\ UNCHANGED <<c_client, c_chars, c_connections, c_subs, c_timer,
                           c_timers>>
    /\ UNCHANGED <<c_disc, c_dev, c_hist, oldvars, pw, af, mp, li>>

\* the client this exchange holds is still the connected one
Alive(t) == c_client = "connected" /\ c_call[t].session = c_connections

\* _send_command_locked (200-201): await client.start_notify
start_notify(t, ok) ==
    /\ c_pc[t] = "notify"
    /\ ok => Alive(t)
    /\ IF ok
       THEN /\ c_subs' = c_subs \cup {t}
            /\ c_pc' = [c_pc EXCEPT ![t] = "write"]
            /\ UNCHANGED <<c_call, c_op_lock>>
       ELSE /\ Failed(t, "BleakError")
            /\ UNCHANGED c_subs
    /\ UNCHANGED <<c_client, c_chars, c_timer, c_timers, c_conn_lock, c_disc, c_dev,
                   c_connections, c_hist, oldvars, pw, af, mp, li>>

\* _send_command_locked (203-204): await client.write_gatt_char
write_gatt_char(t, ok) ==
    /\ c_pc[t] = "write"
    /\ ok => (Alive(t) /\ c_chars)
    /\ IF ok
       THEN /\ c_dev' = t
            /\ c_pc' = [c_pc EXCEPT ![t] = "wait"]
            /\ UNCHANGED <<c_call, c_op_lock>>
       ELSE /\ Failed(t, "BleakError")
            /\ UNCHANGED c_dev
    /\ UNCHANGED <<c_client, c_chars, c_timer, c_timers, c_conn_lock, c_disc, c_subs,
                   c_connections, c_hist, oldvars, pw, af, mp, li>>

\* the device answers the command it was sent: _notification_handler
\* (192-197) of every subscribed task sets its future unless it is done
\* (the timeout cancels it)
notification ==
    /\ c_dev # 0
    /\ c_client = "connected"
    /\ c_call' = [t \in Callers |->
                    IF t \in c_subs /\ c_pc[t] = "wait" /\ c_call[t].resp = 0
                    THEN [c_call[t] EXCEPT !.resp = c_dev]
                    ELSE c_call[t]]
    /\ c_dev' = 0
    /\ UNCHANGED <<c_client, c_chars, c_timer, c_timers, c_conn_lock, c_op_lock,
                   c_pc, c_disc, c_subs, c_connections, c_hist, oldvars, pw, af,
                   mp, li>>

\* _send_command_locked (205-216): the future is set; await client.stop_notify
\* and the response is returned
stop_notify(t, ok) ==
    /\ c_pc[t] = "wait"
    /\ c_call[t].resp # 0
    /\ ok => Alive(t)
    /\ IF ok
       THEN /\ c_subs' = c_subs \ {t}
            /\ c_pc' = [c_pc EXCEPT ![t] = "done"]
            /\ c_call' = [c_call EXCEPT ![t].ret = "response"]
            /\ c_op_lock' = Release(c_op_lock, t)
       ELSE /\ Failed(t, "BleakError")
            /\ UNCHANGED c_subs
    /\ UNCHANGED <<c_client, c_chars, c_timer, c_timers, c_conn_lock, c_disc, c_dev,
                   c_connections, c_hist, oldvars, pw, af, mp, li>>

\* _send_command_locked (205-206): no notification within 5 seconds; the
\* device does not answer this command later
notify_timeout(t) ==
    /\ c_pc[t] = "wait"
    /\ c_call[t].resp = 0
    /\ c_dev' = IF c_dev = t THEN 0 ELSE c_dev
    /\ Failed(t, "TimeoutError")
    /\ UNCHANGED <<c_client, c_chars, c_timer, c_timers, c_conn_lock, c_disc, c_subs,
                   c_connections, c_hist, oldvars, pw, af, mp, li>>

\* _disconnect (165-168): the timer fires and the task is created
disconnect_timer_fires ==
    /\ c_timer # "none"
    /\ c_disc = "idle"
    /\ c_timer' = "none"
    /\ c_timers' = c_timers - 1
    /\ c_disc' = "start"
    /\ c_hist' = [c_hist EXCEPT !.early = @ \/ c_timer = "fresh"]
    /\ UNCHANGED <<c_client, c_chars, c_conn_lock, c_op_lock, c_pc, c_call, c_subs,
                   c_dev, c_connections, oldvars, pw, af, mp, li>>

\* _execute_disconnect (170-177): async with self._connect_lock
execute_disconnect_start ==
    /\ c_disc = "start"
    /\ c_conn_lock' = Acquire(c_conn_lock, DisconnectTask)
    /\ c_disc' = "lock"
    /\ UNCHANGED <<c_client, c_chars, c_timer, c_timers, c_op_lock, c_pc, c_call,
                   c_subs, c_dev, c_connections, c_hist, oldvars, pw, af, mp, li>>

\* _execute_disconnect (178-180): the check, then await client.disconnect()
execute_disconnect_locked ==
    /\ c_disc = "lock"
    /\ c_conn_lock.owner = DisconnectTask
    /\ IF c_client # "connected"
       THEN /\ c_conn_lock' = Release(c_conn_lock, DisconnectTask)
            /\ c_disc' = "idle"
            /\ UNCHANGED c_hist
       ELSE /\ c_disc' = "disconnecting"
            /\ c_hist' = [c_hist EXCEPT
                            !.torn = @ \/ \E t \in Callers : InExchange(t)]
            /\ UNCHANGED c_conn_lock
    /\ UNCHANGED <<c_client, c_chars, c_timer, c_timers, c_op_lock, c_pc, c_call,
                   c_subs, c_dev, c_connections, oldvars, pw, af, mp, li>>

\* _execute_disconnect (180-183): the client is disconnected and cleared
execute_disconnect_done ==
    /\ c_disc = "disconnecting"
    /\ c_client' = "none"
    /\ c_chars' = FALSE
    /\ c_subs' = {}
    /\ c_dev' = 0
    /\ c_conn_lock' = Release(c_conn_lock, DisconnectTask)
    /\ c_disc' = "idle"
    /\ c_hist' = [c_hist EXCEPT !.torn = @ \/ \E t \in Callers : InExchange(t)]
    /\ UNCHANGED <<c_timer, c_timers, c_op_lock, c_pc, c_call, c_connections,
                   oldvars, pw, af, mp, li>>

\* the link drops: client.is_connected turns False
link_lost ==
    /\ c_client = "connected"
    /\ c_disc # "disconnecting"
    /\ c_client' = "lost"
    /\ c_subs' = {}
    /\ c_dev' = 0
    /\ c_hist' = [c_hist EXCEPT !.lost = TRUE]
    /\ UNCHANGED <<c_chars, c_timer, c_timers, c_conn_lock, c_op_lock, c_pc, c_call,
                   c_disc, c_connections, oldvars, pw, af, mp, li>>

\* a device that was never connected, one whose link dropped, one connected
InitConn ==
    /\ OldIdle
    /\ pw = NoPassword
    /\ af = NoFrameOp
    /\ mp = NoOffsetOp
    /\ li = NoLight
    /\ c_client \in {"none", "lost", "connected"}
    /\ c_chars = (c_client # "none")
    /\ c_timer = IF c_client # "none" THEN "stale" ELSE "none"
    /\ c_timers = IF c_client # "none" THEN 1 ELSE 0
    /\ c_conn_lock = FreeLock
    /\ c_op_lock = FreeLock
    /\ c_pc = [t \in Callers |-> "idle"]
    /\ c_call = [t \in Callers |-> NoCallerOp]
    /\ c_disc = "idle"
    /\ c_subs = {}
    /\ c_dev = 0
    /\ c_connections = IF c_client # "none" THEN 1 ELSE 0
    /\ c_hist = NoHist

NextConn ==
    \/ \E t \in Callers : call_sendcommand(t)
    \/ \E t \in Callers : call_ensure_connected(t)
    \/ \E t \in Callers : ensure_connected(t)
    \/ \E t \in Callers : ensure_connected_locked(t)
    \/ \E t \in Callers, ok \in BOOLEAN : connection_established(t, ok)
    \/ \E t \in Callers, ok \in BOOLEAN : start_notify(t, ok)
    \/ \E t \in Callers, ok \in BOOLEAN : write_gatt_char(t, ok)
    \/ notification
    \/ \E t \in Callers, ok \in BOOLEAN : stop_notify(t, ok)
    \/ \E t \in Callers : notify_timeout(t)
    \/ disconnect_timer_fires
    \/ execute_disconnect_start
    \/ execute_disconnect_locked
    \/ execute_disconnect_done
    \/ link_lost

SpecConn == InitConn /\ [][NextConn]_vars

\* ------------------------------------------------------------------------
\* Properties
\* ------------------------------------------------------------------------
\* the payloads and the hint of the last resolver call
CallSD == select_service_data(Inputs[call.input].adv.service_data)

CallHint == Inputs[call.input].model

\* _service_data is longer than 5 bytes and ends in a byte-sequence key
HasSuffix(sd) ==
    Truthy(sd) /\ Len(sd) > 5 /\ InSupported(BytesKey(Last4(sd)))

Enriched(r) == "modelFriendlyName" \in DOMAIN r /\ "modelName" \in DOMAIN r

Populated(r) == Enriched(r) /\ ~IsEmpty(r.data)

Minimal(r) ==
    /\ "modelFriendlyName" \notin DOMAIN r
    /\ "modelName" \notin DOMAIN r
    /\ r.model # NoneModel

\* C1: a resolver call returns what the first call with the same input
\* (service-data, manufacturer-data, model hint) returned, whatever resolver
\* calls and device updates happened in between.
C1_SameInputSameOutput ==
    call.input # 0 => Outcome(ret) = firstOut[call.input]

\* C2: no exception raised while determining the model or running a parser
\* leaves parse_advertisement_data: the call returns a record or nothing, and
\* a parser exception ends in nothing, logged.
C2_NoExceptionPropagates ==
    /\ ret.kind \in {"init", "none", "adv"}
    /\ call.kind = "raise" => (ret.kind = "none" /\ logged > 0)

C2_Witness ==
    call.kind = "raise" /\ call.exc = "ValueError" /\ ret.kind = "none"

\* C3: with service-data present, a hint equal to the canonical model of the
\* dispatch entry of the service-data's leading character gives the same
\* output as no hint.
C3_ImpliedHintChangesNothing ==
    \A i, j \in InputIdx :
        LET sd == select_service_data(Inputs[i].adv.service_data)
            c  == Chr(BitAnd(At(sd, 0), 127))
        IN  ( /\ Inputs[i].adv = Inputs[j].adv
              /\ Inputs[i].model = NoneStr
              /\ Truthy(sd)
              /\ InSupported(c)
              /\ Inputs[j].model = SUPPORTED_TYPES[SupportedGet(c)].modelName
              /\ firstOut[i].kind # "unset"
              /\ firstOut[j].kind # "unset" )
            => firstOut[i] = firstOut[j]

\* C4: a resolver call changes nothing but the memoization cache (with the
\* records it holds) and the log: no parser keeps state across calls.
C4_ResolverKeepsNoState ==
    [][calls' # calls => lastStatus' = lastStatus]_vars

\* C5: a raw value outside an enumeration's range never makes a parser raise.
C5_EnumOutOfRangeNeverRaises ==
    ~(call.kind = "raise" /\ call.exc = "ValueError")

\* C6 (as stated): whenever a hint is supplied and maps to a known
\* discriminator, the returned record carries the discriminator of the hint.
C6_HintAlwaysWins ==
    (ret.kind = "adv" /\ CallHint # NoneStr /\ InModelToChar(CallHint))
        => ret.snap.model = SWITCHBOT_MODEL_TO_CHAR(CallHint)

\* C6 (amended): whenever a hint is supplied and maps to a known
\* discriminator, the returned record carries the discriminator of the hint,
\* unless the service-data is longer than 5 bytes and its last 4 bytes are a
\* byte-sequence discriminator of the table: then it carries that sequence.
C6_HintWinsUnlessSuffix ==
    (ret.kind = "adv" /\ CallHint # NoneStr /\ InModelToChar(CallHint))
        => ret.snap.model = IF HasSuffix(CallSD) THEN BytesKey(Last4(CallSD))
                            ELSE SWITCHBOT_MODEL_TO_CHAR(CallHint)

C6_Witness ==
    /\ ret.kind = "adv" /\ CallHint = "WoPlug" /\ Truthy(CallSD)
    /\ ret.snap.model = Chr(106)

\* C7: whenever the service-data is longer than 5 bytes and its last 4 bytes
\* are a byte-sequence discriminator of the table, the record carries that
\* sequence as its discriminator, not the character of the first byte.
C7_SuffixWins ==
    (ret.kind = "adv" /\ HasSuffix(CallSD))
        => /\ ret.snap.model = BytesKey(Last4(CallSD))
           /\ ret.snap.model # Chr(BitAnd(At(CallSD, 0), 127))

C7_Witness ==
    /\ ret.kind = "adv" /\ HasSuffix(CallSD) /\ CallHint = "WoRemote"
    /\ ret.snap.model = BytesKey(<<0, 16, 185, 64>>)

\* C8: a returned record has friendly name and canonical model exactly when
\* its discriminator has a dispatch entry whose parser returned a non-empty
\* mapping; when the parser returned an empty mapping the record carries the
\* discriminator and an empty attributes mapping.
C8_EnrichedIffParsed ==
    ret.kind = "adv" =>
        LET m == made[ret.obj]
        IN  /\ Enriched(ret.snap) <=> (m.type_idx # 0 /\ ~IsEmpty(m.parsed))
            /\ ("modelFriendlyName" \in DOMAIN ret.snap
                   <=> "modelName" \in DOMAIN ret.snap)
            /\ IsEmpty(m.parsed) =>
                  (IsEmpty(ret.snap.data) /\ ret.snap.model # NoneModel)

\* C9 (as stated): every call ends in a populated record or in nothing.
C9_PopulatedOrNothing ==
    /\ ret.kind \in {"init", "none", "adv"}
    /\ ret.kind = "adv" => Populated(ret.snap)

\* C9 (amended): every call ends in a populated record (non-empty attributes
\* with friendly name and canonical model), in a minimal record that carries
\* the discriminator but neither friendly name nor canonical model, or in
\* nothing.
C9_PopulatedMinimalOrNothing ==
    /\ ret.kind \in {"init", "none", "adv"}
    /\ ret.kind = "adv" => (Populated(ret.snap) \/ Minimal(ret.snap))
    /\ ret.kind = "adv" => ~(Populated(ret.snap) /\ Minimal(ret.snap))

C9_Witness ==
    /\ ret.kind = "adv" /\ Minimal(ret.snap) /\ IsEmpty(ret.snap.data)
    /\ call.type_idx # 0 /\ call.ran

\* C10 (as stated): the reverse index maps the canonical model of every
\* dispatch entry back to that entry's discriminator.
C10_ReverseIndexRoundTrip ==
    lk_pc \in {"reversed", "done"} => lk_char = SUPPORTED_TYPES[lk_entry].chr

\* C10 (amended): the reverse index maps the canonical model of a dispatch
\* entry back to that entry's discriminator for every entry whose canonical
\* model no later entry of the table shares.
C10_ReverseIndexRoundTripLast ==
    ( /\ lk_pc \in {"reversed", "done"}
      /\ \A j \in TableIdx :
            SUPPORTED_TYPES[j].modelName = SUPPORTED_TYPES[lk_entry].modelName
                => j <= lk_entry )
    => /\ lk_char = SUPPORTED_TYPES[lk_entry].chr
       /\ lk_pc = "done" => lk_fwd = lk_entry

C10_Witness ==
    /\ lk_pc = "done"
    /\ SUPPORTED_TYPES[lk_entry].chr = Chr(99)
    /\ lk_char = Chr(99)
    /\ lk_fwd = lk_entry

\* the last call's advertisement has no payload under a recognised service
\* UUID and none under a recognised company id
CallAbsent ==
    /\ \A k \in 1..Len(SERVICE_DATA_ORDER) :
          SERVICE_DATA_ORDER[k] \notin DOMAIN Inputs[call.input].adv.service_data
    /\ \A k \in 1..Len(MFR_DATA_ORDER) :
          MFR_DATA_ORDER[k] \notin DOMAIN Inputs[call.input].adv.manufacturer_data

\* C11: an advertisement with no service-data under a recognised UUID and no
\* manufacturer-data under a recognised company id resolves to nothing,
\* whatever the hint, and nothing is raised.
C11_AbsentReturnsNothing ==
    (call.input # 0 /\ CallAbsent)
        => (ret.kind = "none" /\ call.kind # "raise" /\ call.exc = "")

C11_Witness ==
    /\ call.input # 0 /\ CallAbsent /\ ret.kind = "none"
    /\ DOMAIN Inputs[call.input].adv.service_data # {}
    /\ \E j \in InputIdx :
          /\ firstOut[j].kind = "none"
          /\ Inputs[j].adv = Adv(EmptyMap, EmptyMap)
          /\ Inputs[j].model # NoneStr

CallMfr == select_mfr_data(Inputs[call.input].adv.manufacturer_data)

\* index of the first dispatch entry, in table order, registered for the
\* company id with an expected manufacturer-data length equal to the
\* payload's length; 0 when there is none
FirstByLength(mfr_id, mfr_data) ==
    LET m == {j \in TableIdx :
                /\ SUPPORTED_TYPES[j].manufacturer_id = mfr_id
                /\ SUPPORTED_TYPES[j].manufacturer_data_length = Len(mfr_data)}
    IN  IF m = {} THEN 0 ELSE CHOOSE j \in m : \A k \in m : j <= k

\* C12: without service-data and without a hint that maps to a discriminator,
\* the discriminator is that of the first dispatch entry of the matched
\* company id whose expected manufacturer-data length equals the payload
\* length; when no entry matches the resolver returns nothing.
C12_LengthOnlySelection ==
    ( /\ call.input # 0
      /\ ~Truthy(CallSD)
      /\ ~(CallHint # NoneStr /\ InModelToChar(CallHint)) )
    => LET j == FirstByLength(CallMfr[1], CallMfr[2])
       IN  /\ j = 0 => ret.kind = "none"
           /\ (j # 0 /\ ret.kind = "adv") => ret.snap.model = SUPPORTED_TYPES[j].chr
           /\ (j # 0 /\ call.kind \in {"data", "raise"})
                  => call.model = SUPPORTED_TYPES[j].chr
           /\ (j # 0 /\ call.kind = "data") => ret.kind = "adv"

C12_Witness ==
    /\ call.input # 0 /\ ~Truthy(CallSD) /\ CallHint = NoneStr
    /\ CallMfr[1] = 741 /\ FirstByLength(CallMfr[1], CallMfr[2]) # 0
    /\ ret.kind = "adv" /\ ret.snap.model = Chr(101)
    /\ \E i \in InputIdx :
          /\ Inputs[i].adv.manufacturer_data = (741 :> HumiMfrLong)
          /\ firstOut[i].kind = "none"

\* C13: nothing modifies a record after the resolver returned it: a call
\* served from the cache returns the attributes the parser originally
\* produced.
C13_CachedRecordUnmodified ==
    (call.kind = "hit" /\ ret.kind = "adv")
        => ret.snap.data = made[ret.obj].parsed

\* C14: when a second callback recomputes an input that another call has
\* cached in the meantime, it returns what the cache holds for that input and
\* leaves the parser state as it found it.
C14_DuplicateRecomputeHarmless ==
    (race.pc = "done" /\ race.dup /\ race.kind # "raise")
    => LET k == CacheFind(cache, InputKey(race.input))
       IN  /\ k # 0
           /\ cache[k].val = 0 <=> race.kind = "none"
           /\ cache[k].val # 0 => race.parsed = made[cache[k].val].parsed
           /\ lastStatus = race.ls_before

\* C15: a call is served from the cache only by the entry whose key equals
\* the call's service-data, manufacturer-data, company id and hint, all four.
C15_HitAgreesOnAllFour ==
    call.kind = "hit"
        => /\ Len(cache) > 0
           /\ cache[Len(cache)].key = InputKey(call.input)
           /\ cache[Len(cache)].val = ret.obj

C15_Witness ==
    /\ call.kind = "hit"
    /\ ret.kind = "adv"
    /\ \E k \in 1..Len(cache) :
          /\ SubSeq(cache[k].key, 1, 3) = SubSeq(InputKey(call.input), 1, 3)
          /\ cache[k].key[4] # InputKey(call.input)[4]
          /\ cache[k].val # ret.obj

\* the temperature and the humidity of the payload both decode to zero
MeterZero ==
    /\ Len(mt_mfr) = 16
    /\ BitAnd(At(mt_mfr, 14), 127) = 0
    /\ BitAnd(At(mt_mfr, 13), 15) = 0
    /\ BitAnd(At(mt_mfr, 15), 127) = 0

C17_RetriesThenFailureByte ==
    sc_pc = "done"
    => /\ sc_result \in {"response", "zero"}
       /\ sc_result = "zero" => sc_tried = sc_retry + 1
       /\ sc_tried <= sc_retry + 1

\* C18: a keypad advertisement with service-data and manufacturer-data
\* resolves to exactly the attributes battery (service-data byte 2) and
\* attempt_state (manufacturer-data byte 6), whatever was parsed before.
C18_KeypadBatteryAndAttemptState ==
    ( /\ call.input # 0
      /\ call.kind = "data"
      /\ call.model = Chr(121)
      /\ Truthy(CallSD)
      /\ ~IsNone(CallMfr[2]) )
    => /\ ret.kind = "adv"
       /\ DOMAIN ret.snap.data = {"battery", "attempt_state"}
       /\ ret.snap.data.battery = At(CallSD, 2)
       /\ ret.snap.data.attempt_state = At(CallMfr[2], 6)

\* C19: with a position known before, an advertisement that reports motion
\* and a changed position leaves the shade opening exactly when the position
\* increased and closing exactly when it decreased; an advertisement that
\* reports no motion leaves it neither opening nor closing.
C19_MotionDirection ==
    (rs_last.kind = "adv" /\ rs_prev # NoneInt)
    => /\ (rs_last.in_motion /\ rs_last.position # rs_prev)
             => /\ rs_is_opening <=> rs_last.position > rs_prev
                /\ rs_is_closing <=> rs_last.position < rs_prev
       /\ ~rs_last.in_motion => (~rs_is_opening /\ ~rs_is_closing)

C19_Witness ==
    /\ rs_last.kind = "adv" /\ rs_last.in_motion
    /\ rs_prev = 0 /\ rs_last.position = 10
    /\ rs_is_opening /\ ~rs_is_closing

\* C20: set_mode raises SwitchbotOperationError and hands no command to the
\* transport whenever the advertisement it sees reports an empty water tank,
\* or reports no bound meter (or there is none) while the mode is
\* target-humidity or auto, or holds no target humidity while the mode is
\* target-humidity or sleep.
TankEmpty(adv) ==
    adv.has /\ "water_level" \in DOMAIN adv.data /\ adv.data.water_level = "empty"

MeterNotBound(adv) ==
    ~adv.has \/ "is_meter_binded" \notin DOMAIN adv.data
             \/ adv.data.is_meter_binded = 0

TargetUnknown(adv) ==
    ~adv.has \/ "target_humidity" \notin DOMAIN adv.data

C20_SetModeRefuses ==
    (/\ hm_last.mode # 0
     /\ \/ TankEmpty(hm_last.adv)
        \/ MeterNotBound(hm_last.adv) /\ hm_last.mode \in {TARGET_HUMIDITY, AUTO}
        \/ TargetUnknown(hm_last.adv) /\ hm_last.mode \in {TARGET_HUMIDITY, SLEEP})
    => (hm_last.raised = "SwitchbotOperationError" /\ hm_last.command = <<>>)

\* C21: for a password of 6 to 12 digits, add_password hands over the payload
\* (FF, 00, length, digits) cut in order into packets of at most 11 payload
\* bytes; each packet is the header 57 0F 52 02 02, a byte with the packet
\* count in its high nibble and the packet's zero-based index in its low
\* nibble, and its share of the payload, so that the shares joined in index
\* order are the payload.
HexValue(c) == CHOOSE v \in 0..15 : HexDigits[v + 1] = c

RECURSIVE FromHex(_)
FromHex(h) ==
    IF Len(h) < 2 THEN <<>>
    ELSE <<HexValue(h[1]) * 16 + HexValue(h[2])>> \o FromHex(SubSeq(h, 3, Len(h)))

RECURSIVE JoinShares(_)
JoinShares(packets) ==
    IF Len(packets) = 0 THEN <<>>
    ELSE SubSeq(packets[1], 7, Len(packets[1])) \o JoinShares(Tail(packets))

PwPackets == [k \in 1..Len(pw.cmds) |-> FromHex(pw.cmds[k])]

PwValid ==
    /\ Len(pw.password) \in 6..12
    /\ \A i \in 1..Len(pw.password) : pw.password[i] \in 48..57

C21_PasswordPackets ==
    (pw.pc = "done" /\ PwValid)
    => /\ pw.raised = ""
       /\ Len(pw.cmds) >= 1
       /\ \A k \in 1..Len(pw.cmds) :
             /\ SubSeq(PwPackets[k], 1, 5) = <<87, 15, 82, 2, 2>>
             /\ PwPackets[k][6] \div 16 = Len(pw.cmds)
             /\ PwPackets[k][6] % 16 = k - 1
             /\ Len(PwPackets[k]) - 6 \in 1..11
       /\ JoinShares(PwPackets)
             = <<255, 0, Len(pw.password)>>
               \o [i \in 1..Len(pw.password) |-> pw.password[i] - 48]

C21_Witness ==
    /\ pw.pc = "done"
    /\ pw.password = DigitRun(12, 1, 1)
    /\ Len(pw.cmds) = 2
    /\ pw.cmds[2] = <<"5", "7", "0", "F", "5", "2", "0", "2", "0", "2", "2", "1",
                      "0", "9", "0", "0", "0", "1", "0", "2">>

\* C22: with at least two images and the basic info read, next_image sends
\* the element after the current image in all_images_index (the first when
\* the current one is the last) and prev_image the element before it (the
\* last when the current one is the first).
FramePos == CHOOSE i \in 1..Len(af.all) : af.all[i] = af.current

FrameSelected == HexValue(af.cmd[2]) * 16 + HexValue(af.cmd[3])

C22_NextPrevWrap ==
    (/\ af.pc = "done" /\ af.basic_ok
     /\ Len(af.all) >= 2
     /\ \E i \in 1..Len(af.all) : af.all[i] = af.current)
    => /\ af.raised = ""
       /\ Len(af.cmd) = 3 /\ af.cmd[1] = "570F7A02"
       /\ af.offset = 1
             => FrameSelected
                  = af.all[IF FramePos = Len(af.all) THEN 1 ELSE FramePos + 1]
       /\ af.offset = -1
             => FrameSelected
                  = af.all[IF FramePos = 1 THEN Len(af.all) ELSE FramePos - 1]

C22_Witness ==
    /\ af.pc = "done" /\ af.offset = 1
    /\ af.all = <<1, 100, 150>> /\ af.current = 150
    /\ af.cmd = <<"570F7A02", "0", "1">>

\* C23: set_time_offset sends, for every offset of magnitude at most
\* 2^24 - 1, the sign byte (80 for a negative offset, 00 otherwise) and the
\* magnitude as three big-endian bytes; for every larger magnitude it raises
\* SwitchbotOperationError and sends nothing.
HexValueLower(c) == CHOOSE v \in 0..15 : HexDigitsLower[v + 1] = c

RECURSIVE HexNumber(_)
HexNumber(h) ==
    IF Len(h) = 0 THEN 0
    ELSE HexNumber(SubSeq(h, 1, Len(h) - 1)) * 16 + HexValueLower(h[Len(h)])

OffsetMagnitude == IF mp.offset_seconds < 0 THEN -mp.offset_seconds
                   ELSE mp.offset_seconds

C23_TimeOffsetRange ==
    mp.pc = "done"
    => IF OffsetMagnitude <= 16777215
       THEN /\ Len(mp.payload) = 8
            /\ mp.payload[1] = "570f680506"
            /\ mp.payload[2] = (IF mp.offset_seconds < 0 THEN "80" ELSE "00")
            /\ HexNumber(SubSeq(mp.payload, 3, 8)) = OffsetMagnitude
       ELSE mp.raised = "SwitchbotOperationError" /\ mp.payload = <<>>

\* C24 as stated: the illuminance is the table value of the code clamped into
\* the range of the table's keys, and it is 0 only when the clamped code has
\* no table entry.
LightTable == IF li.hub = "hub2" THEN hub2_light_map ELSE LIGHT_INTENSITY_MAP

LightClamped ==
    IF li.light_level < 1 THEN 1
    ELSE IF li.light_level > Len(LightTable) THEN Len(LightTable)
    ELSE li.light_level

C25_NoTeardownDuringExchange == ~(c_hist.torn /\ ~c_hist.early)

EnsureReturned(t) ==
    /\ c_call[t].kind = "ensure"
    /\ c_pc[t] = "done"
    /\ c_call[t].ret = "ok"

\* C29: when several tasks call _ensure_connected on a disconnected device at
\* the same time (no link loss during the calls, only timers armed before
\* them firing), exactly one connection is established, and when each call
\* returns the device has a client, its characteristics and exactly one
\* pending disconnect timer
C29_OneConnection ==
    (c_hist.concurrent /\ ~c_hist.lost /\ ~c_hist.early) =>
        /\ \A t \in Callers :
              EnsureReturned(t) =>
                  /\ c_call[t].snap.client = "connected"
                  /\ c_call[t].snap.chars
                  /\ c_call[t].snap.timers = 1
        /\ (\A t \in Callers : EnsureReturned(t)) =>
              c_connections - c_hist.base = 1

\* the resolver inputs that are complete advertisements of the one keypad
KeypadAdverts ==
    {i \in 1..Len(Inputs) :
        /\ Inputs[i].adv.service_data = (UUID1 :> KeypadSD)
        /\ DOMAIN Inputs[i].adv.manufacturer_data = {2409}
        /\ Inputs[i].model \in {NoneStr, "WoKeypad"}}

KeypadStatus(i) == At(Inputs[i].adv.manufacturer_data[2409], 6)

\* C26: the success flag the resolver returns for a keypad advertisement is
\* the comparison of its status byte with the status byte of the keypad
\* advertisement delivered immediately before it, also when the same
\* advertisement was resolved earlier
C26_SuccessFromPreviousAdvert ==
    [][(/\ calls' # calls
        /\ call.input \in KeypadAdverts
        /\ call'.input \in KeypadAdverts)
       => /\ ret'.kind = "adv"
          /\ (ret'.snap.data.success = 1)
                <=> KeypadSuccess(KeypadStatus(call.input),
                                  KeypadStatus(call'.input))]_vars

\* C28 as stated: after every advertisement that reports no motion the shade
\* reports neither opening nor closing, whatever came before
C28_StillMeansIdle ==
    (rs_last.kind = "adv" /\ ~rs_last.in_motion)
    => (~rs_is_opening /\ ~rs_is_closing)

\* C28: after an advertisement that reports no motion, received when the
\* shade already held the position of an earlier advertisement, the shade
\* reports neither opening nor closing, whatever commands came before
C28_StillMeansIdleOncePositioned ==
    (rs_last.kind = "adv" /\ ~rs_last.in_motion /\ rs_prev # NoneInt)
    => (~rs_is_opening /\ ~rs_is_closing)

C28_Witness ==
    /\ rs_last.kind = "adv" /\ ~rs_last.in_motion
    /\ rs_prev = 100 /\ rs_last.position = 90
    /\ ~rs_is_opening /\ ~rs_is_closing

\* C30: the shade never reports opening and closing at the same time
C30_NotOpeningAndClosing == ~(rs_is_opening /\ rs_is_closing)

C30_Witness ==
    /\ rs_last.kind = "basic_info" /\ rs_last.in_motion
    /\ rs_position = 90 /\ rs_last.position = 0
    /\ rs_is_closing /\ ~rs_is_opening

====
